---- MODULE Spec2Model ----
(***************************************************************************)
(* LineBuffer of reedline-ts (src/src/core/line-buffer.ts): the text of    *)
(* the entered line(s) and the insertion point.                            *)
(*                                                                         *)
(* A JavaScript string is a sequence of UTF-16 code units; the model keeps *)
(* `lines` as a sequence of code-unit numbers and every offset 0-based,    *)
(* as the source does.  Offset i of string s is s[i+1] in TLA+.            *)
(***************************************************************************)
EXTENDS Integers, Sequences, FiniteSets, TLC

VARIABLES lines, insertionPoint, observed, last

vars == <<lines, insertionPoint, observed, last>>

(***************************************************************************)
(* Bounds of the model.                                                    *)
(***************************************************************************)
\* longest buffer the operations may build
MaxLen == 3
\* longest buffer searched for matching delimiters
MaxPairLen == 5
\* longest buffer on which one move is repeated without end
MaxRepeatLen == 2

(***************************************************************************)
(* Code units.                                                             *)
(***************************************************************************)
\* '\n'
LF == 10
\* '\r' (charCodeAt(...) === 13)
CR == 13

\* the code units the inputs are built from:
\* 'a' 'A' ' ' '\n' '\r' '.', the combining acute accent U+0301 and the two
\* surrogates of U+1F60A
Alphabet == {97, 65, 32, LF, CR, 46, 769, 55357, 56842}

\* the emoji U+1F60A: one code point, two code units
Emoji == <<55357, 56842>>

\* JavaScript: a high surrogate is in U+D800..U+DBFF, a low one in U+DC00..U+DFFF
IsHighSurrogate(c) == c >= 55296 /\ c <= 56319
IsLowSurrogate(c) == c >= 56320 /\ c <= 57343

\* \w of a JavaScript regular expression without the u flag: [A-Za-z0-9_]
IsWordChar(c) ==
  \/ (c >= 65 /\ c <= 90)
  \/ (c >= 97 /\ c <= 122)
  \/ (c >= 48 /\ c <= 57)
  \/ c = 95

\* \s of a JavaScript regular expression
IsSpaceChar(c) ==
  \/ c \in {9, 10, 11, 12, 13, 32, 160, 5760, 8232, 8233, 8239, 8287, 12288, 65279}
  \/ (c >= 8192 /\ c <= 8202)

\* The case mappings String.prototype.toUpperCase / toLowerCase apply to each
\* code point (Unicode 17.0: the simple mappings of UnicodeData.txt and the
\* unconditional rules of SpecialCasing.txt).  A row <<lo, hi, step, delta>>
\* of upper / lower maps the code points lo, lo + step, .., hi to themselves
\* plus delta; a row <<code point, code units>> of upperSpecial /
\* lowerSpecial maps a code point to several code units.  Every other code
\* point is left as it is.
\* cased and ignorable are the ranges <<lo, hi>> the Final_Sigma rule reads
\* (Cased and Case_Ignorable of DerivedCoreProperties.txt): the cased code
\* points that are not case-ignorable, and the case-ignorable ones.
CaseTable ==
  [upper |-> <<
      <<97, 122, 1, -32>>, <<181, 181, 1, 743>>, <<224, 246, 1, -32>>,
      <<248, 254, 1, -32>>, <<255, 255, 1, 121>>, <<257, 303, 2, -1>>,
      <<305, 305, 1, -232>>, <<307, 311, 2, -1>>, <<314, 328, 2, -1>>,
      <<331, 375, 2, -1>>, <<378, 382, 2, -1>>, <<383, 383, 1, -300>>,
      <<384, 384, 1, 195>>, <<387, 389, 2, -1>>, <<392, 392, 1, -1>>,
      <<396, 396, 1, -1>>, <<402, 402, 1, -1>>, <<405, 405, 1, 97>>,
      <<409, 409, 1, -1>>, <<410, 410, 1, 163>>, <<411, 411, 1, 42561>>,
      <<414, 414, 1, 130>>, <<417, 421, 2, -1>>, <<424, 424, 1, -1>>,
      <<429, 429, 1, -1>>, <<432, 432, 1, -1>>, <<436, 438, 2, -1>>,
      <<441, 441, 1, -1>>, <<445, 445, 1, -1>>, <<447, 447, 1, 56>>,
      <<453, 453, 1, -1>>, <<454, 454, 1, -2>>, <<456, 456, 1, -1>>,
      <<457, 457, 1, -2>>, <<459, 459, 1, -1>>, <<460, 460, 1, -2>>,
      <<462, 476, 2, -1>>, <<477, 477, 1, -79>>, <<479, 495, 2, -1>>,
      <<498, 498, 1, -1>>, <<499, 499, 1, -2>>, <<501, 501, 1, -1>>,
      <<505, 543, 2, -1>>, <<547, 563, 2, -1>>, <<572, 572, 1, -1>>,
      <<575, 576, 1, 10815>>, <<578, 578, 1, -1>>, <<583, 591, 2, -1>>,
      <<592, 592, 1, 10783>>, <<593, 593, 1, 10780>>, <<594, 594, 1, 10782>>,
      <<595, 595, 1, -210>>, <<596, 596, 1, -206>>, <<598, 599, 1, -205>>,
      <<601, 601, 1, -202>>, <<603, 603, 1, -203>>, <<604, 604, 1, 42319>>,
      <<608, 608, 1, -205>>, <<609, 609, 1, 42315>>, <<611, 611, 1, -207>>,
      <<612, 612, 1, 42343>>, <<613, 613, 1, 42280>>, <<614, 614, 1, 42308>>,
      <<616, 616, 1, -209>>, <<617, 617, 1, -211>>, <<618, 618, 1, 42308>>,
      <<619, 619, 1, 10743>>, <<620, 620, 1, 42305>>, <<623, 623, 1, -211>>,
      <<625, 625, 1, 10749>>, <<626, 626, 1, -213>>, <<629, 629, 1, -214>>,
      <<637, 637, 1, 10727>>, <<640, 640, 1, -218>>, <<642, 642, 1, 42307>>,
      <<643, 643, 1, -218>>, <<647, 647, 1, 42282>>, <<648, 648, 1, -218>>,
      <<649, 649, 1, -69>>, <<650, 651, 1, -217>>, <<652, 652, 1, -71>>,
      <<658, 658, 1, -219>>, <<669, 669, 1, 42261>>, <<670, 670, 1, 42258>>,
      <<837, 837, 1, 84>>, <<881, 883, 2, -1>>, <<887, 887, 1, -1>>,
      <<891, 893, 1, 130>>, <<940, 940, 1, -38>>, <<941, 943, 1, -37>>,
      <<945, 961, 1, -32>>, <<962, 962, 1, -31>>, <<963, 971, 1, -32>>,
      <<972, 972, 1, -64>>, <<973, 974, 1, -63>>, <<976, 976, 1, -62>>,
      <<977, 977, 1, -57>>, <<981, 981, 1, -47>>, <<982, 982, 1, -54>>,
      <<983, 983, 1, -8>>, <<985, 1007, 2, -1>>, <<1008, 1008, 1, -86>>,
      <<1009, 1009, 1, -80>>, <<1010, 1010, 1, 7>>, <<1011, 1011, 1, -116>>,
      <<1013, 1013, 1, -96>>, <<1016, 1016, 1, -1>>, <<1019, 1019, 1, -1>>,
      <<1072, 1103, 1, -32>>, <<1104, 1119, 1, -80>>, <<1121, 1153, 2, -1>>,
      <<1163, 1215, 2, -1>>, <<1218, 1230, 2, -1>>, <<1231, 1231, 1, -15>>,
      <<1233, 1327, 2, -1>>, <<1377, 1414, 1, -48>>, <<4304, 4346, 1, 3008>>,
      <<4349, 4351, 1, 3008>>, <<5112, 5117, 1, -8>>,
      <<7296, 7296, 1, -6254>>, <<7297, 7297, 1, -6253>>,
      <<7298, 7298, 1, -6244>>, <<7299, 7300, 1, -6242>>,
      <<7301, 7301, 1, -6243>>, <<7302, 7302, 1, -6236>>,
      <<7303, 7303, 1, -6181>>, <<7304, 7304, 1, 35266>>,
      <<7306, 7306, 1, -1>>, <<7545, 7545, 1, 35332>>,
      <<7549, 7549, 1, 3814>>, <<7566, 7566, 1, 35384>>,
      <<7681, 7829, 2, -1>>, <<7835, 7835, 1, -59>>, <<7841, 7935, 2, -1>>,
      <<7936, 7943, 1, 8>>, <<7952, 7957, 1, 8>>, <<7968, 7975, 1, 8>>,
      <<7984, 7991, 1, 8>>, <<8000, 8005, 1, 8>>, <<8017, 8023, 2, 8>>,
      <<8032, 8039, 1, 8>>, <<8048, 8049, 1, 74>>, <<8050, 8053, 1, 86>>,
      <<8054, 8055, 1, 100>>, <<8056, 8057, 1, 128>>, <<8058, 8059, 1, 112>>,
      <<8060, 8061, 1, 126>>, <<8112, 8113, 1, 8>>, <<8126, 8126, 1, -7205>>,
      <<8144, 8145, 1, 8>>, <<8160, 8161, 1, 8>>, <<8165, 8165, 1, 7>>,
      <<8526, 8526, 1, -28>>, <<8560, 8575, 1, -16>>, <<8580, 8580, 1, -1>>,
      <<9424, 9449, 1, -26>>, <<11312, 11359, 1, -48>>,
      <<11361, 11361, 1, -1>>, <<11365, 11365, 1, -10795>>,
      <<11366, 11366, 1, -10792>>, <<11368, 11372, 2, -1>>,
      <<11379, 11379, 1, -1>>, <<11382, 11382, 1, -1>>,
      <<11393, 11491, 2, -1>>, <<11500, 11502, 2, -1>>,
      <<11507, 11507, 1, -1>>, <<11520, 11557, 1, -7264>>,
      <<11559, 11559, 1, -7264>>, <<11565, 11565, 1, -7264>>,
      <<42561, 42605, 2, -1>>, <<42625, 42651, 2, -1>>,
      <<42787, 42799, 2, -1>>, <<42803, 42863, 2, -1>>,
      <<42874, 42876, 2, -1>>, <<42879, 42887, 2, -1>>,
      <<42892, 42892, 1, -1>>, <<42897, 42899, 2, -1>>,
      <<42900, 42900, 1, 48>>, <<42903, 42921, 2, -1>>,
      <<42933, 42947, 2, -1>>, <<42952, 42954, 2, -1>>,
      <<42957, 42971, 2, -1>>, <<42998, 42998, 1, -1>>,
      <<43859, 43859, 1, -928>>, <<43888, 43967, 1, -38864>>,
      <<65345, 65370, 1, -32>>, <<66600, 66639, 1, -40>>,
      <<66776, 66811, 1, -40>>, <<66967, 66977, 1, -39>>,
      <<66979, 66993, 1, -39>>, <<66995, 67001, 1, -39>>,
      <<67003, 67004, 1, -39>>, <<68800, 68850, 1, -64>>,
      <<68976, 68997, 1, -32>>, <<71872, 71903, 1, -32>>,
      <<93792, 93823, 1, -32>>, <<93883, 93907, 1, -27>>,
      <<125218, 125251, 1, -34>>>>,
   upperSpecial |-> <<
      <<223, <<83, 83>>>>, <<329, <<700, 78>>>>, <<496, <<74, 780>>>>,
      <<912, <<921, 776, 769>>>>, <<944, <<933, 776, 769>>>>,
      <<1415, <<1333, 1362>>>>, <<7830, <<72, 817>>>>, <<7831, <<84, 776>>>>,
      <<7832, <<87, 778>>>>, <<7833, <<89, 778>>>>, <<7834, <<65, 702>>>>,
      <<8016, <<933, 787>>>>, <<8018, <<933, 787, 768>>>>,
      <<8020, <<933, 787, 769>>>>, <<8022, <<933, 787, 834>>>>,
      <<8064, <<7944, 921>>>>, <<8065, <<7945, 921>>>>,
      <<8066, <<7946, 921>>>>, <<8067, <<7947, 921>>>>,
      <<8068, <<7948, 921>>>>, <<8069, <<7949, 921>>>>,
      <<8070, <<7950, 921>>>>, <<8071, <<7951, 921>>>>,
      <<8072, <<7944, 921>>>>, <<8073, <<7945, 921>>>>,
      <<8074, <<7946, 921>>>>, <<8075, <<7947, 921>>>>,
      <<8076, <<7948, 921>>>>, <<8077, <<7949, 921>>>>,
      <<8078, <<7950, 921>>>>, <<8079, <<7951, 921>>>>,
      <<8080, <<7976, 921>>>>, <<8081, <<7977, 921>>>>,
      <<8082, <<7978, 921>>>>, <<8083, <<7979, 921>>>>,
      <<8084, <<7980, 921>>>>, <<8085, <<7981, 921>>>>,
      <<8086, <<7982, 921>>>>, <<8087, <<7983, 921>>>>,
      <<8088, <<7976, 921>>>>, <<8089, <<7977, 921>>>>,
      <<8090, <<7978, 921>>>>, <<8091, <<7979, 921>>>>,
      <<8092, <<7980, 921>>>>, <<8093, <<7981, 921>>>>,
      <<8094, <<7982, 921>>>>, <<8095, <<7983, 921>>>>,
      <<8096, <<8040, 921>>>>, <<8097, <<8041, 921>>>>,
      <<8098, <<8042, 921>>>>, <<8099, <<8043, 921>>>>,
      <<8100, <<8044, 921>>>>, <<8101, <<8045, 921>>>>,
      <<8102, <<8046, 921>>>>, <<8103, <<8047, 921>>>>,
      <<8104, <<8040, 921>>>>, <<8105, <<8041, 921>>>>,
      <<8106, <<8042, 921>>>>, <<8107, <<8043, 921>>>>,
      <<8108, <<8044, 921>>>>, <<8109, <<8045, 921>>>>,
      <<8110, <<8046, 921>>>>, <<8111, <<8047, 921>>>>,
      <<8114, <<8122, 921>>>>, <<8115, <<913, 921>>>>,
      <<8116, <<902, 921>>>>, <<8118, <<913, 834>>>>,
      <<8119, <<913, 834, 921>>>>, <<8124, <<913, 921>>>>,
      <<8130, <<8138, 921>>>>, <<8131, <<919, 921>>>>,
      <<8132, <<905, 921>>>>, <<8134, <<919, 834>>>>,
      <<8135, <<919, 834, 921>>>>, <<8140, <<919, 921>>>>,
      <<8146, <<921, 776, 768>>>>, <<8147, <<921, 776, 769>>>>,
      <<8150, <<921, 834>>>>, <<8151, <<921, 776, 834>>>>,
      <<8162, <<933, 776, 768>>>>, <<8163, <<933, 776, 769>>>>,
      <<8164, <<929, 787>>>>, <<8166, <<933, 834>>>>,
      <<8167, <<933, 776, 834>>>>, <<8178, <<8186, 921>>>>,
      <<8179, <<937, 921>>>>, <<8180, <<911, 921>>>>, <<8182, <<937, 834>>>>,
      <<8183, <<937, 834, 921>>>>, <<8188, <<937, 921>>>>,
      <<64256, <<70, 70>>>>, <<64257, <<70, 73>>>>, <<64258, <<70, 76>>>>,
      <<64259, <<70, 70, 73>>>>, <<64260, <<70, 70, 76>>>>,
      <<64261, <<83, 84>>>>, <<64262, <<83, 84>>>>,
      <<64275, <<1348, 1350>>>>, <<64276, <<1348, 1333>>>>,
      <<64277, <<1348, 1339>>>>, <<64278, <<1358, 1350>>>>,
      <<64279, <<1348, 1341>>>>>>,
   lower |-> <<
      <<65, 90, 1, 32>>, <<192, 214, 1, 32>>, <<216, 222, 1, 32>>,
      <<256, 302, 2, 1>>, <<306, 310, 2, 1>>, <<313, 327, 2, 1>>,
      <<330, 374, 2, 1>>, <<376, 376, 1, -121>>, <<377, 381, 2, 1>>,
      <<385, 385, 1, 210>>, <<386, 388, 2, 1>>, <<390, 390, 1, 206>>,
      <<391, 391, 1, 1>>, <<393, 394, 1, 205>>, <<395, 395, 1, 1>>,
      <<398, 398, 1, 79>>, <<399, 399, 1, 202>>, <<400, 400, 1, 203>>,
      <<401, 401, 1, 1>>, <<403, 403, 1, 205>>, <<404, 404, 1, 207>>,
      <<406, 406, 1, 211>>, <<407, 407, 1, 209>>, <<408, 408, 1, 1>>,
      <<412, 412, 1, 211>>, <<413, 413, 1, 213>>, <<415, 415, 1, 214>>,
      <<416, 420, 2, 1>>, <<422, 422, 1, 218>>, <<423, 423, 1, 1>>,
      <<425, 425, 1, 218>>, <<428, 428, 1, 1>>, <<430, 430, 1, 218>>,
      <<431, 431, 1, 1>>, <<433, 434, 1, 217>>, <<435, 437, 2, 1>>,
      <<439, 439, 1, 219>>, <<440, 440, 1, 1>>, <<444, 444, 1, 1>>,
      <<452, 452, 1, 2>>, <<453, 453, 1, 1>>, <<455, 455, 1, 2>>,
      <<456, 456, 1, 1>>, <<458, 458, 1, 2>>, <<459, 475, 2, 1>>,
      <<478, 494, 2, 1>>, <<497, 497, 1, 2>>, <<498, 500, 2, 1>>,
      <<502, 502, 1, -97>>, <<503, 503, 1, -56>>, <<504, 542, 2, 1>>,
      <<544, 544, 1, -130>>, <<546, 562, 2, 1>>, <<570, 570, 1, 10795>>,
      <<571, 571, 1, 1>>, <<573, 573, 1, -163>>, <<574, 574, 1, 10792>>,
      <<577, 577, 1, 1>>, <<579, 579, 1, -195>>, <<580, 580, 1, 69>>,
      <<581, 581, 1, 71>>, <<582, 590, 2, 1>>, <<880, 882, 2, 1>>,
      <<886, 886, 1, 1>>, <<895, 895, 1, 116>>, <<902, 902, 1, 38>>,
      <<904, 906, 1, 37>>, <<908, 908, 1, 64>>, <<910, 911, 1, 63>>,
      <<913, 929, 1, 32>>, <<931, 939, 1, 32>>, <<975, 975, 1, 8>>,
      <<984, 1006, 2, 1>>, <<1012, 1012, 1, -60>>, <<1015, 1015, 1, 1>>,
      <<1017, 1017, 1, -7>>, <<1018, 1018, 1, 1>>, <<1021, 1023, 1, -130>>,
      <<1024, 1039, 1, 80>>, <<1040, 1071, 1, 32>>, <<1120, 1152, 2, 1>>,
      <<1162, 1214, 2, 1>>, <<1216, 1216, 1, 15>>, <<1217, 1229, 2, 1>>,
      <<1232, 1326, 2, 1>>, <<1329, 1366, 1, 48>>, <<4256, 4293, 1, 7264>>,
      <<4295, 4295, 1, 7264>>, <<4301, 4301, 1, 7264>>,
      <<5024, 5103, 1, 38864>>, <<5104, 5109, 1, 8>>, <<7305, 7305, 1, 1>>,
      <<7312, 7354, 1, -3008>>, <<7357, 7359, 1, -3008>>,
      <<7680, 7828, 2, 1>>, <<7838, 7838, 1, -7615>>, <<7840, 7934, 2, 1>>,
      <<7944, 7951, 1, -8>>, <<7960, 7965, 1, -8>>, <<7976, 7983, 1, -8>>,
      <<7992, 7999, 1, -8>>, <<8008, 8013, 1, -8>>, <<8025, 8031, 2, -8>>,
      <<8040, 8047, 1, -8>>, <<8072, 8079, 1, -8>>, <<8088, 8095, 1, -8>>,
      <<8104, 8111, 1, -8>>, <<8120, 8121, 1, -8>>, <<8122, 8123, 1, -74>>,
      <<8124, 8124, 1, -9>>, <<8136, 8139, 1, -86>>, <<8140, 8140, 1, -9>>,
      <<8152, 8153, 1, -8>>, <<8154, 8155, 1, -100>>, <<8168, 8169, 1, -8>>,
      <<8170, 8171, 1, -112>>, <<8172, 8172, 1, -7>>,
      <<8184, 8185, 1, -128>>, <<8186, 8187, 1, -126>>,
      <<8188, 8188, 1, -9>>, <<8486, 8486, 1, -7517>>,
      <<8490, 8490, 1, -8383>>, <<8491, 8491, 1, -8262>>,
      <<8498, 8498, 1, 28>>, <<8544, 8559, 1, 16>>, <<8579, 8579, 1, 1>>,
      <<9398, 9423, 1, 26>>, <<11264, 11311, 1, 48>>, <<11360, 11360, 1, 1>>,
      <<11362, 11362, 1, -10743>>, <<11363, 11363, 1, -3814>>,
      <<11364, 11364, 1, -10727>>, <<11367, 11371, 2, 1>>,
      <<11373, 11373, 1, -10780>>, <<11374, 11374, 1, -10749>>,
      <<11375, 11375, 1, -10783>>, <<11376, 11376, 1, -10782>>,
      <<11378, 11378, 1, 1>>, <<11381, 11381, 1, 1>>,
      <<11390, 11391, 1, -10815>>, <<11392, 11490, 2, 1>>,
      <<11499, 11501, 2, 1>>, <<11506, 11506, 1, 1>>, <<42560, 42604, 2, 1>>,
      <<42624, 42650, 2, 1>>, <<42786, 42798, 2, 1>>, <<42802, 42862, 2, 1>>,
      <<42873, 42875, 2, 1>>, <<42877, 42877, 1, -35332>>,
      <<42878, 42886, 2, 1>>, <<42891, 42891, 1, 1>>,
      <<42893, 42893, 1, -42280>>, <<42896, 42898, 2, 1>>,
      <<42902, 42920, 2, 1>>, <<42922, 42922, 1, -42308>>,
      <<42923, 42923, 1, -42319>>, <<42924, 42924, 1, -42315>>,
      <<42925, 42925, 1, -42305>>, <<42926, 42926, 1, -42308>>,
      <<42928, 42928, 1, -42258>>, <<42929, 42929, 1, -42282>>,
      <<42930, 42930, 1, -42261>>, <<42931, 42931, 1, 928>>,
      <<42932, 42946, 2, 1>>, <<42948, 42948, 1, -48>>,
      <<42949, 42949, 1, -42307>>, <<42950, 42950, 1, -35384>>,
      <<42951, 42953, 2, 1>>, <<42955, 42955, 1, -42343>>,
      <<42956, 42970, 2, 1>>, <<42972, 42972, 1, -42561>>,
      <<42997, 42997, 1, 1>>, <<65313, 65338, 1, 32>>,
      <<66560, 66599, 1, 40>>, <<66736, 66771, 1, 40>>,
      <<66928, 66938, 1, 39>>, <<66940, 66954, 1, 39>>,
      <<66956, 66962, 1, 39>>, <<66964, 66965, 1, 39>>,
      <<68736, 68786, 1, 64>>, <<68944, 68965, 1, 32>>,
      <<71840, 71871, 1, 32>>, <<93760, 93791, 1, 32>>,
      <<93856, 93880, 1, 27>>, <<125184, 125217, 1, 34>>>>,
   lowerSpecial |-> <<
      <<304, <<105, 775>>>>>>,
   cased |-> <<
      <<65, 90>>, <<97, 122>>, <<170, 170>>, <<181, 181>>, <<186, 186>>,
      <<192, 214>>, <<216, 246>>, <<248, 442>>, <<444, 447>>, <<452, 659>>,
      <<662, 687>>, <<880, 883>>, <<886, 887>>, <<891, 893>>, <<895, 895>>,
      <<902, 902>>, <<904, 906>>, <<908, 908>>, <<910, 929>>, <<931, 1013>>,
      <<1015, 1153>>, <<1162, 1327>>, <<1329, 1366>>, <<1376, 1416>>,
      <<4256, 4293>>, <<4295, 4295>>, <<4301, 4301>>, <<4304, 4346>>,
      <<4349, 4351>>, <<5024, 5109>>, <<5112, 5117>>, <<7296, 7306>>,
      <<7312, 7354>>, <<7357, 7359>>, <<7424, 7467>>, <<7531, 7543>>,
      <<7545, 7578>>, <<7680, 7957>>, <<7960, 7965>>, <<7968, 8005>>,
      <<8008, 8013>>, <<8016, 8023>>, <<8025, 8025>>, <<8027, 8027>>,
      <<8029, 8029>>, <<8031, 8061>>, <<8064, 8116>>, <<8118, 8124>>,
      <<8126, 8126>>, <<8130, 8132>>, <<8134, 8140>>, <<8144, 8147>>,
      <<8150, 8155>>, <<8160, 8172>>, <<8178, 8180>>, <<8182, 8188>>,
      <<8450, 8450>>, <<8455, 8455>>, <<8458, 8467>>, <<8469, 8469>>,
      <<8473, 8477>>, <<8484, 8484>>, <<8486, 8486>>, <<8488, 8488>>,
      <<8490, 8493>>, <<8495, 8500>>, <<8505, 8505>>, <<8508, 8511>>,
      <<8517, 8521>>, <<8526, 8526>>, <<8544, 8575>>, <<8579, 8580>>,
      <<9398, 9449>>, <<11264, 11387>>, <<11390, 11492>>, <<11499, 11502>>,
      <<11506, 11507>>, <<11520, 11557>>, <<11559, 11559>>, <<11565, 11565>>,
      <<42560, 42605>>, <<42624, 42651>>, <<42786, 42863>>, <<42865, 42887>>,
      <<42891, 42894>>, <<42896, 42972>>, <<42997, 42998>>, <<43002, 43002>>,
      <<43824, 43866>>, <<43872, 43880>>, <<43888, 43967>>, <<64256, 64262>>,
      <<64275, 64279>>, <<65313, 65338>>, <<65345, 65370>>, <<66560, 66639>>,
      <<66736, 66771>>, <<66776, 66811>>, <<66928, 66938>>, <<66940, 66954>>,
      <<66956, 66962>>, <<66964, 66965>>, <<66967, 66977>>, <<66979, 66993>>,
      <<66995, 67001>>, <<67003, 67004>>, <<68736, 68786>>, <<68800, 68850>>,
      <<68944, 68965>>, <<68976, 68997>>, <<71840, 71903>>, <<93760, 93823>>,
      <<93856, 93880>>, <<93883, 93907>>, <<119808, 119892>>,
      <<119894, 119964>>, <<119966, 119967>>, <<119970, 119970>>,
      <<119973, 119974>>, <<119977, 119980>>, <<119982, 119993>>,
      <<119995, 119995>>, <<119997, 120003>>, <<120005, 120069>>,
      <<120071, 120074>>, <<120077, 120084>>, <<120086, 120092>>,
      <<120094, 120121>>, <<120123, 120126>>, <<120128, 120132>>,
      <<120134, 120134>>, <<120138, 120144>>, <<120146, 120485>>,
      <<120488, 120512>>, <<120514, 120538>>, <<120540, 120570>>,
      <<120572, 120596>>, <<120598, 120628>>, <<120630, 120654>>,
      <<120656, 120686>>, <<120688, 120712>>, <<120714, 120744>>,
      <<120746, 120770>>, <<120772, 120779>>, <<122624, 122633>>,
      <<122635, 122654>>, <<122661, 122666>>, <<125184, 125251>>,
      <<127280, 127305>>, <<127312, 127337>>, <<127344, 127369>>>>,
   ignorable |-> <<
      <<39, 39>>, <<46, 46>>, <<58, 58>>, <<94, 94>>, <<96, 96>>,
      <<168, 168>>, <<173, 173>>, <<175, 175>>, <<180, 180>>, <<183, 184>>,
      <<688, 879>>, <<884, 885>>, <<890, 890>>, <<900, 901>>, <<903, 903>>,
      <<1155, 1161>>, <<1369, 1369>>, <<1375, 1375>>, <<1425, 1469>>,
      <<1471, 1471>>, <<1473, 1474>>, <<1476, 1477>>, <<1479, 1479>>,
      <<1524, 1524>>, <<1536, 1541>>, <<1552, 1562>>, <<1564, 1564>>,
      <<1600, 1600>>, <<1611, 1631>>, <<1648, 1648>>, <<1750, 1757>>,
      <<1759, 1768>>, <<1770, 1773>>, <<1807, 1807>>, <<1809, 1809>>,
      <<1840, 1866>>, <<1958, 1968>>, <<2027, 2037>>, <<2042, 2042>>,
      <<2045, 2045>>, <<2070, 2093>>, <<2137, 2139>>, <<2184, 2184>>,
      <<2192, 2193>>, <<2199, 2207>>, <<2249, 2306>>, <<2362, 2362>>,
      <<2364, 2364>>, <<2369, 2376>>, <<2381, 2381>>, <<2385, 2391>>,
      <<2402, 2403>>, <<2417, 2417>>, <<2433, 2433>>, <<2492, 2492>>,
      <<2497, 2500>>, <<2509, 2509>>, <<2530, 2531>>, <<2558, 2558>>,
      <<2561, 2562>>, <<2620, 2620>>, <<2625, 2626>>, <<2631, 2632>>,
      <<2635, 2637>>, <<2641, 2641>>, <<2672, 2673>>, <<2677, 2677>>,
      <<2689, 2690>>, <<2748, 2748>>, <<2753, 2757>>, <<2759, 2760>>,
      <<2765, 2765>>, <<2786, 2787>>, <<2810, 2815>>, <<2817, 2817>>,
      <<2876, 2876>>, <<2879, 2879>>, <<2881, 2884>>, <<2893, 2893>>,
      <<2901, 2902>>, <<2914, 2915>>, <<2946, 2946>>, <<3008, 3008>>,
      <<3021, 3021>>, <<3072, 3072>>, <<3076, 3076>>, <<3132, 3132>>,
      <<3134, 3136>>, <<3142, 3144>>, <<3146, 3149>>, <<3157, 3158>>,
      <<3170, 3171>>, <<3201, 3201>>, <<3260, 3260>>, <<3263, 3263>>,
      <<3270, 3270>>, <<3276, 3277>>, <<3298, 3299>>, <<3328, 3329>>,
      <<3387, 3388>>, <<3393, 3396>>, <<3405, 3405>>, <<3426, 3427>>,
      <<3457, 3457>>, <<3530, 3530>>, <<3538, 3540>>, <<3542, 3542>>,
      <<3633, 3633>>, <<3636, 3642>>, <<3654, 3662>>, <<3761, 3761>>,
      <<3764, 3772>>, <<3782, 3782>>, <<3784, 3790>>, <<3864, 3865>>,
      <<3893, 3893>>, <<3895, 3895>>, <<3897, 3897>>, <<3953, 3966>>,
      <<3968, 3972>>, <<3974, 3975>>, <<3981, 3991>>, <<3993, 4028>>,
      <<4038, 4038>>, <<4141, 4144>>, <<4146, 4151>>, <<4153, 4154>>,
      <<4157, 4158>>, <<4184, 4185>>, <<4190, 4192>>, <<4209, 4212>>,
      <<4226, 4226>>, <<4229, 4230>>, <<4237, 4237>>, <<4253, 4253>>,
      <<4348, 4348>>, <<4957, 4959>>, <<5906, 5908>>, <<5938, 5939>>,
      <<5970, 5971>>, <<6002, 6003>>, <<6068, 6069>>, <<6071, 6077>>,
      <<6086, 6086>>, <<6089, 6099>>, <<6103, 6103>>, <<6109, 6109>>,
      <<6155, 6159>>, <<6211, 6211>>, <<6277, 6278>>, <<6313, 6313>>,
      <<6432, 6434>>, <<6439, 6440>>, <<6450, 6450>>, <<6457, 6459>>,
      <<6679, 6680>>, <<6683, 6683>>, <<6742, 6742>>, <<6744, 6750>>,
      <<6752, 6752>>, <<6754, 6754>>, <<6757, 6764>>, <<6771, 6780>>,
      <<6783, 6783>>, <<6823, 6823>>, <<6832, 6877>>, <<6880, 6891>>,
      <<6912, 6915>>, <<6964, 6964>>, <<6966, 6970>>, <<6972, 6972>>,
      <<6978, 6978>>, <<7019, 7027>>, <<7040, 7041>>, <<7074, 7077>>,
      <<7080, 7081>>, <<7083, 7085>>, <<7142, 7142>>, <<7144, 7145>>,
      <<7149, 7149>>, <<7151, 7153>>, <<7212, 7219>>, <<7222, 7223>>,
      <<7288, 7293>>, <<7376, 7378>>, <<7380, 7392>>, <<7394, 7400>>,
      <<7405, 7405>>, <<7412, 7412>>, <<7416, 7417>>, <<7468, 7530>>,
      <<7544, 7544>>, <<7579, 7679>>, <<8125, 8125>>, <<8127, 8129>>,
      <<8141, 8143>>, <<8157, 8159>>, <<8173, 8175>>, <<8189, 8190>>,
      <<8203, 8207>>, <<8216, 8217>>, <<8228, 8228>>, <<8231, 8231>>,
      <<8234, 8238>>, <<8288, 8292>>, <<8294, 8303>>, <<8305, 8305>>,
      <<8319, 8319>>, <<8336, 8348>>, <<8400, 8432>>, <<11388, 11389>>,
      <<11503, 11505>>, <<11631, 11631>>, <<11647, 11647>>, <<11744, 11775>>,
      <<11823, 11823>>, <<12293, 12293>>, <<12330, 12333>>, <<12337, 12341>>,
      <<12347, 12347>>, <<12441, 12446>>, <<12540, 12542>>, <<40981, 40981>>,
      <<42232, 42237>>, <<42508, 42508>>, <<42607, 42610>>, <<42612, 42621>>,
      <<42623, 42623>>, <<42652, 42655>>, <<42736, 42737>>, <<42752, 42785>>,
      <<42864, 42864>>, <<42888, 42890>>, <<42993, 42996>>, <<43000, 43001>>,
      <<43010, 43010>>, <<43014, 43014>>, <<43019, 43019>>, <<43045, 43046>>,
      <<43052, 43052>>, <<43204, 43205>>, <<43232, 43249>>, <<43263, 43263>>,
      <<43302, 43309>>, <<43335, 43345>>, <<43392, 43394>>, <<43443, 43443>>,
      <<43446, 43449>>, <<43452, 43453>>, <<43471, 43471>>, <<43493, 43494>>,
      <<43561, 43566>>, <<43569, 43570>>, <<43573, 43574>>, <<43587, 43587>>,
      <<43596, 43596>>, <<43632, 43632>>, <<43644, 43644>>, <<43696, 43696>>,
      <<43698, 43700>>, <<43703, 43704>>, <<43710, 43711>>, <<43713, 43713>>,
      <<43741, 43741>>, <<43756, 43757>>, <<43763, 43764>>, <<43766, 43766>>,
      <<43867, 43871>>, <<43881, 43883>>, <<44005, 44005>>, <<44008, 44008>>,
      <<44013, 44013>>, <<64286, 64286>>, <<64434, 64450>>, <<65024, 65039>>,
      <<65043, 65043>>, <<65056, 65071>>, <<65106, 65106>>, <<65109, 65109>>,
      <<65279, 65279>>, <<65287, 65287>>, <<65294, 65294>>, <<65306, 65306>>,
      <<65342, 65342>>, <<65344, 65344>>, <<65392, 65392>>, <<65438, 65439>>,
      <<65507, 65507>>, <<65529, 65531>>, <<66045, 66045>>, <<66272, 66272>>,
      <<66422, 66426>>, <<67456, 67461>>, <<67463, 67504>>, <<67506, 67514>>,
      <<68097, 68099>>, <<68101, 68102>>, <<68108, 68111>>, <<68152, 68154>>,
      <<68159, 68159>>, <<68325, 68326>>, <<68900, 68903>>, <<68942, 68942>>,
      <<68969, 68973>>, <<68975, 68975>>, <<69291, 69292>>, <<69317, 69317>>,
      <<69370, 69375>>, <<69446, 69456>>, <<69506, 69509>>, <<69633, 69633>>,
      <<69688, 69702>>, <<69744, 69744>>, <<69747, 69748>>, <<69759, 69761>>,
      <<69811, 69814>>, <<69817, 69818>>, <<69821, 69821>>, <<69826, 69826>>,
      <<69837, 69837>>, <<69888, 69890>>, <<69927, 69931>>, <<69933, 69940>>,
      <<70003, 70003>>, <<70016, 70017>>, <<70070, 70078>>, <<70089, 70092>>,
      <<70095, 70095>>, <<70191, 70193>>, <<70196, 70196>>, <<70198, 70199>>,
      <<70206, 70206>>, <<70209, 70209>>, <<70367, 70367>>, <<70371, 70378>>,
      <<70400, 70401>>, <<70459, 70460>>, <<70464, 70464>>, <<70502, 70508>>,
      <<70512, 70516>>, <<70587, 70592>>, <<70606, 70606>>, <<70608, 70608>>,
      <<70610, 70610>>, <<70625, 70626>>, <<70712, 70719>>, <<70722, 70724>>,
      <<70726, 70726>>, <<70750, 70750>>, <<70835, 70840>>, <<70842, 70842>>,
      <<70847, 70848>>, <<70850, 70851>>, <<71090, 71093>>, <<71100, 71101>>,
      <<71103, 71104>>, <<71132, 71133>>, <<71219, 71226>>, <<71229, 71229>>,
      <<71231, 71232>>, <<71339, 71339>>, <<71341, 71341>>, <<71344, 71349>>,
      <<71351, 71351>>, <<71453, 71453>>, <<71455, 71455>>, <<71458, 71461>>,
      <<71463, 71467>>, <<71727, 71735>>, <<71737, 71738>>, <<71995, 71996>>,
      <<71998, 71998>>, <<72003, 72003>>, <<72148, 72151>>, <<72154, 72155>>,
      <<72160, 72160>>, <<72193, 72202>>, <<72243, 72248>>, <<72251, 72254>>,
      <<72263, 72263>>, <<72273, 72278>>, <<72281, 72283>>, <<72330, 72342>>,
      <<72344, 72345>>, <<72544, 72544>>, <<72546, 72548>>, <<72550, 72550>>,
      <<72752, 72758>>, <<72760, 72765>>, <<72767, 72767>>, <<72850, 72871>>,
      <<72874, 72880>>, <<72882, 72883>>, <<72885, 72886>>, <<73009, 73014>>,
      <<73018, 73018>>, <<73020, 73021>>, <<73023, 73029>>, <<73031, 73031>>,
      <<73104, 73105>>, <<73109, 73109>>, <<73111, 73111>>, <<73177, 73177>>,
      <<73459, 73460>>, <<73472, 73473>>, <<73526, 73530>>, <<73536, 73536>>,
      <<73538, 73538>>, <<73562, 73562>>, <<78896, 78912>>, <<78919, 78933>>,
      <<90398, 90409>>, <<90413, 90415>>, <<92912, 92916>>, <<92976, 92982>>,
      <<92992, 92995>>, <<93504, 93506>>, <<93547, 93548>>, <<94031, 94031>>,
      <<94095, 94111>>, <<94176, 94177>>, <<94179, 94180>>, <<94194, 94195>>,
      <<110576, 110579>>, <<110581, 110587>>, <<110589, 110590>>,
      <<113821, 113822>>, <<113824, 113827>>, <<118528, 118573>>,
      <<118576, 118598>>, <<119143, 119145>>, <<119155, 119170>>,
      <<119173, 119179>>, <<119210, 119213>>, <<119362, 119364>>,
      <<121344, 121398>>, <<121403, 121452>>, <<121461, 121461>>,
      <<121476, 121476>>, <<121499, 121503>>, <<121505, 121519>>,
      <<122880, 122886>>, <<122888, 122904>>, <<122907, 122913>>,
      <<122915, 122916>>, <<122918, 122922>>, <<122928, 122989>>,
      <<123023, 123023>>, <<123184, 123197>>, <<123566, 123566>>,
      <<123628, 123631>>, <<124139, 124143>>, <<124398, 124399>>,
      <<124643, 124643>>, <<124646, 124646>>, <<124654, 124655>>,
      <<124661, 124661>>, <<124671, 124671>>, <<125136, 125142>>,
      <<125252, 125259>>, <<127995, 127999>>, <<917505, 917505>>,
      <<917536, 917631>>, <<917760, 917999>>>>]

\* The code points of s from code unit i on (a high surrogate directly
\* followed by a low one is one code point, any other code unit, a lone
\* surrogate too, is one), each replaced by what the rows map it to: to
\* lower case if lower, else to upper case, by the rows of table.  In lower
\* case U+03A3 gives U+03C2 instead of U+03C3 when (Final_Sigma) the nearest
\* code point before it that is not case-ignorable is cased and the nearest
\* one after it that is not case-ignorable, if any, is not.
RECURSIVE CaseMap(_, _, _, _)
CaseMap(s, i, lower, table) ==
  IF i > Len(s) THEN <<>>
  ELSE LET runs == IF lower THEN table.lower ELSE table.upper
           special == IF lower THEN table.lowerSpecial
                      ELSE table.upperSpecial
           Paired(k) == /\ IsHighSurrogate(s[k])
                        /\ k < Len(s)
                        /\ IsLowSurrogate(s[k + 1])
           Starts(k) == ~(k > 1 /\ IsLowSurrogate(s[k]) /\ IsHighSurrogate(s[k - 1]))
           At(k) == IF Paired(k)
                    THEN 65536 + (s[k] - 55296) * 1024 + (s[k + 1] - 56320)
                    ELSE s[k]
           In(c, rows) == \E r \in DOMAIN rows : c >= rows[r][1] /\ c <= rows[r][2]
           Ignored(from, to) ==
             \A k \in from..to : Starts(k) => In(At(k), table.ignorable)
           casedBefore == \E j \in 1..(i - 1) :
                            /\ Starts(j)
                            /\ In(At(j), table.cased)
                            /\ Ignored(j + 1, i - 1)
           casedAfter == \E j \in (i + 1)..Len(s) :
                           /\ Starts(j)
                           /\ In(At(j), table.cased)
                           /\ Ignored(i + 1, j - 1)
           cp == At(i)
           sp == {k \in DOMAIN special : special[k][1] = cp}
           rn == {k \in DOMAIN runs :
                    /\ cp >= runs[k][1]
                    /\ cp <= runs[k][2]
                    /\ (cp - runs[k][1]) % runs[k][3] = 0}
           to == IF rn = {} THEN cp ELSE cp + runs[CHOOSE k \in rn : TRUE][4]
           mapped == IF lower /\ cp = 931 /\ casedBefore /\ ~casedAfter THEN <<962>>
                     ELSE IF sp # {} THEN special[CHOOSE k \in sp : TRUE][2]
                     ELSE IF to < 65536 THEN <<to>>
                     ELSE <<55296 + ((to - 65536) \div 1024),
                            56320 + ((to - 65536) % 1024)>>
       IN  mapped \o CaseMap(s, i + (IF Paired(i) THEN 2 ELSE 1), lower, table)

toUpperCase(s) == CaseMap(s, 1, FALSE, CaseTable)

toLowerCase(s) == CaseMap(s, 1, TRUE, CaseTable)

(***************************************************************************)
(* JavaScript string built-ins the source calls.                           *)
(***************************************************************************)
Min(a, b) == IF a < b THEN a ELSE b
Max(a, b) == IF a > b THEN a ELSE b

\* substring clamps each argument into [0, length] ...
ClampIndex(s, i) == IF i < 0 THEN 0 ELSE IF i > Len(s) THEN Len(s) ELSE i

\* ... and swaps them when the first is the larger: s.substring(a, b)
substring(s, a, b) ==
  LET x == ClampIndex(s, a)
      y == ClampIndex(s, b)
  IN  SubSeq(s, Min(x, y) + 1, Max(x, y))

\* s.substring(a)
substringFrom(s, a) == substring(s, a, Len(s))

\* does t occur in s at offset i
OccursAt(s, t, i) == i >= 0 /\ i + Len(t) <= Len(s) /\ SubSeq(s, i + 1, i + Len(t)) = t

\* s.indexOf(t): the least offset where t occurs, -1 when there is none
indexOf(s, t) ==
  LET hits == {i \in 0..Len(s) : OccursAt(s, t, i)}
  IN  IF hits = {} THEN -1 ELSE CHOOSE i \in hits : \A j \in hits : i <= j

\* s.lastIndexOf(t, from): the greatest offset <= from where t occurs
\* (from is clamped into [0, length]), -1 when there is none
lastIndexOfFrom(s, t, from) ==
  LET hits == {i \in 0..ClampIndex(s, from) : OccursAt(s, t, i)}
  IN  IF hits = {} THEN -1 ELSE CHOOSE i \in hits : \A j \in hits : i >= j

\* s.lastIndexOf(t)
lastIndexOf(s, t) == lastIndexOfFrom(s, t, Len(s))

\* s.split('\n'): the pieces between the line feeds, in order
RECURSIVE splitLF(_)
splitLF(s) ==
  LET k == indexOf(s, <<LF>>)
  IN  IF k = -1 THEN <<s>>
      ELSE <<substring(s, 0, k)>> \o splitLF(substringFrom(s, k + 1))

\* array.findIndex(x => x === v): 0-based, -1 when absent
findIndex(arr, v) ==
  LET hits == {k \in 1..Len(arr) : arr[k] = v}
  IN  IF hits = {} THEN -1 ELSE (CHOOSE k \in hits : \A j \in hits : k <= j) - 1

(***************************************************************************)
(* Private helpers of LineBuffer.                                          *)
(***************************************************************************)

\* Array.from(string) iterates by code point: a high surrogate directly
\* followed by a low surrogate is one element of length 2, any other code
\* unit (a lone surrogate too) is an element of length 1.
codePointLength(s, i) ==
  IF IsHighSurrogate(s[i + 1]) /\ i + 1 < Len(s) /\ IsLowSurrogate(s[i + 2])
  THEN 2 ELSE 1

\* the running sums currentIndex pushed by the loop of getGraphemeIndices
RECURSIVE codePointEnds(_, _)
codePointEnds(s, i) ==
  IF i >= Len(s) THEN <<>>
  ELSE <<i + codePointLength(s, i)>> \o codePointEnds(s, i + codePointLength(s, i))

\* getGraphemeIndices(): [0] followed by the end offset of every code point
getGraphemeIndices(b) == <<0>> \o codePointEnds(b, 0)

\* \w+ at offset i: the length of the maximal run of word characters there
RECURSIVE wordRunLength(_, _)
wordRunLength(s, i) ==
  IF i < Len(s) /\ IsWordChar(s[i + 1]) THEN 1 + wordRunLength(s, i + 1) ELSE 0

\* \s+ at offset i: the length of the maximal run of white space there
RECURSIVE spaceRunLength(_, _)
spaceRunLength(s, i) ==
  IF i < Len(s) /\ IsSpaceChar(s[i + 1]) THEN 1 + spaceRunLength(s, i + 1) ELSE 0

\* text.match(/\b\w+|\s+|[^\w\s]/g): the successive matches from offset i on.
\* At each offset the alternatives are tried in order; where none matches the
\* scan moves one code unit on.  \b holds in front of a word character at
\* offset 0 and behind a code unit that is no word character.
RECURSIVE regexMatches(_, _)
regexMatches(s, i) ==
  IF i >= Len(s) THEN <<>>
  ELSE LET c == s[i + 1]
       IN  IF IsWordChar(c) /\ (i = 0 \/ ~IsWordChar(s[i]))
           THEN <<substring(s, i, i + wordRunLength(s, i))>>
                  \o regexMatches(s, i + wordRunLength(s, i))
           ELSE IF IsSpaceChar(c)
           THEN <<substring(s, i, i + spaceRunLength(s, i))>>
                  \o regexMatches(s, i + spaceRunLength(s, i))
           ELSE IF ~IsWordChar(c)
           THEN <<<<c>>>> \o regexMatches(s, i + 1)
           ELSE regexMatches(s, i + 1)

\* the loop of splitWordBoundaries: each match paired with the sum of the
\* lengths of the matches before it
RECURSIVE indexMatches(_, _)
indexMatches(matches, currentIndex) ==
  IF matches = <<>> THEN <<>>
  ELSE <<[index |-> currentIndex, word |-> Head(matches)]>>
         \o indexMatches(Tail(matches), currentIndex + Len(Head(matches)))

\* splitWordBoundaries(text): [index, word] pairs
splitWordBoundaries(text) == indexMatches(regexMatches(text, 0), 0)

\* isWhitespaceStr(s): /^\s*$/
isWhitespaceStr(s) == \A k \in 1..Len(s) : IsSpaceChar(s[k])

(***************************************************************************)
(* LineBuffer.  Every method is an operator of the buffer b (this.lines),  *)
(* the insertion point p (this.insertionPoint) and the method's arguments. *)
(* A query yields its return value; a mutator yields the state it leaves.  *)
(***************************************************************************)
State(b, p) == [lines |-> b, insertionPoint |-> p]

len(b) == Len(b)

isEmpty(b) == Len(b) = 0

isValid(b, p) ==
  IF p > Len(b) THEN FALSE
  ELSE LET graphemeIndices == getGraphemeIndices(b)
       IN  (\E k \in 1..Len(graphemeIndices) : graphemeIndices[k] = p) \/ p = Len(b)

line(b, p) == Len(splitLF(substring(b, 0, p))) - 1

numLines(b) == Len(splitLF(b))

\* this.lines.charCodeAt(absoluteIndex - 1) is b[absoluteIndex], sequences
\* being counted from 1
findCurrentLineEnd(b, p) ==
  LET fromCursor == substringFrom(b, p)
      newlineIndex == indexOf(fromCursor, <<LF>>)
      absoluteIndex == newlineIndex + p
  IN  IF newlineIndex = -1 THEN Len(b)
      ELSE IF absoluteIndex > 0 /\ b[absoluteIndex] = CR
           THEN absoluteIndex - 1
           ELSE absoluteIndex

graphemeRightIndex(b, p) ==
  LET graphemeIndices == getGraphemeIndices(b)
      currentIndex == findIndex(graphemeIndices, p)
  IN  IF currentIndex = -1 \/ currentIndex + 1 >= Len(graphemeIndices)
      THEN Len(b)
      ELSE graphemeIndices[currentIndex + 2]

graphemeLeftIndex(b, p) ==
  LET graphemeIndices == getGraphemeIndices(b)
      currentIndex == findIndex(graphemeIndices, p)
  IN  IF currentIndex <= 0 THEN 0 ELSE graphemeIndices[currentIndex]

\* the least element of a non-empty set of positions
Least(S) == CHOOSE k \in S : \A j \in S : k <= j
Greatest(S) == CHOOSE k \in S : \A j \in S : k >= j

\* foundWs / foundNonWs of the forward loops when entry k is visited:
\* some entry up to and including k (respectively before k) was white space / was not
wsUpTo(words, k) == \E j \in 1..k : isWhitespaceStr(words[j].word)
nonWsBefore(words, k) == \E j \in 1..(k - 1) : ~isWhitespaceStr(words[j].word)

wordRightIndex(b, p) ==
  LET words == splitWordBoundaries(substringFrom(b, p))
      hits == {k \in 1..Len(words) : ~isWhitespaceStr(words[k].word)}
  IN  IF hits = {} THEN Len(b)
      ELSE p + words[Least(hits)].index + Len(words[Least(hits)].word)

bigWordRightIndex(b, p) ==
  LET words == splitWordBoundaries(substringFrom(b, p))
      hits == {k \in 1..Len(words) :
                 wsUpTo(words, k) /\ ~isWhitespaceStr(words[k].word)}
  IN  IF hits = {} THEN Len(b)
      ELSE p + words[Least(hits)].index + Len(words[Least(hits)].word)

wordRightEndIndex(b, p) ==
  LET words == splitWordBoundaries(substringFrom(b, p))
      hits == {k \in 1..Len(words) :
                 isWhitespaceStr(words[k].word) /\ nonWsBefore(words, k)}
  IN  IF hits = {} THEN Len(b) ELSE p + words[Least(hits)].index

bigWordRightEndIndex(b, p) ==
  LET words == splitWordBoundaries(substringFrom(b, p))
      hits == {k \in 1..Len(words) :
                 isWhitespaceStr(words[k].word) /\ nonWsBefore(words, k)}
  IN  IF hits = {} THEN Len(b) ELSE p + words[Least(hits)].index

wordRightStartIndex(b, p) ==
  LET words == splitWordBoundaries(substringFrom(b, p))
      hits == {k \in 1..Len(words) : ~isWhitespaceStr(words[k].word)}
  IN  IF hits = {} THEN Len(b) ELSE p + words[Least(hits)].index

bigWordRightStartIndex(b, p) ==
  LET words == splitWordBoundaries(substringFrom(b, p))
      hits == {k \in 1..Len(words) :
                 wsUpTo(words, k) /\ ~isWhitespaceStr(words[k].word)}
  IN  IF hits = {} THEN Len(b) ELSE p + words[Least(hits)].index

wordLeftIndex(b, p) ==
  LET words == splitWordBoundaries(substring(b, 0, p))
      hits == {k \in 1..Len(words) : ~isWhitespaceStr(words[k].word)}
  IN  IF hits = {} THEN 0 ELSE words[Greatest(hits)].index

\* foundWs, when entry k is visited going backwards, is that some entry from
\* k on is white space
bigWordLeftIndex(b, p) ==
  LET words == splitWordBoundaries(substring(b, 0, p))
      foundWs(k) == \E j \in k..Len(words) : isWhitespaceStr(words[j].word)
      hits == {k \in 1..Len(words) : foundWs(k) /\ ~isWhitespaceStr(words[k].word)}
  IN  IF hits = {} THEN 0 ELSE words[Greatest(hits)].index

\* this.lines[p] is undefined outside the buffer, and /\s/ does not match 'undefined'
onWhitespace(b, p) ==
  IF p >= Len(b) \/ p < 0 THEN FALSE ELSE IsSpaceChar(b[p + 1])

graphemeRight(b, p) == substring(b, p, graphemeRightIndex(b, p))

graphemeLeft(b, p) == substring(b, graphemeLeftIndex(b, p), p)

currentWordRange(b, p) == <<wordLeftIndex(b, p), wordRightIndex(b, p)>>

currentLineRange(b, p) ==
  <<lastIndexOf(substring(b, 0, p), <<LF>>) + 1, findCurrentLineEnd(b, p)>>

isCursorAtFirstLine(b, p) == line(b, p) = 0

isCursorAtLastLine(b, p) == line(b, p) = numLines(b) - 1

\* null is <<>>, a found offset n is <<n>>
findCharRight(b, p, c, currentLine) ==
  LET searchStart == p
      searchEnd == IF currentLine THEN findCurrentLineEnd(b, p) ELSE Len(b)
      index == indexOf(substring(b, searchStart, searchEnd), c)
  IN  IF index = -1 THEN <<>> ELSE <<searchStart + index>>

findCharLeft(b, p, c, currentLine) ==
  LET searchEnd == p
      searchStart == IF currentLine
                     THEN lastIndexOf(substring(b, 0, p), <<LF>>) + 1
                     ELSE 0
      index == lastIndexOf(substring(b, searchStart, searchEnd), c)
  IN  IF index = -1 THEN <<>> ELSE <<searchStart + index>>

(***************************************************************************)
(* Mutators: the state each method leaves.                                 *)
(***************************************************************************)
\* findMatchingPair that reports a pair only when the cursor is on its right
\* delimiter
findMatchingPairRightOnly(b, leftChar, rightChar, cursor) ==
  LET RECURSIVE scan(_, _)
      scan(i, stack) ==
        IF i >= Len(b) THEN <<>>
        ELSE LET char == <<b[i + 1]>>
             IN  IF char = leftChar THEN scan(i + 1, Append(stack, i))
                 ELSE IF char = rightChar
                 THEN IF Len(stack) = 0 THEN scan(i + 1, stack)
                      ELSE LET leftIndex == stack[Len(stack)]
                               popped == SubSeq(stack, 1, Len(stack) - 1)
                           IN  IF i = cursor THEN <<<<leftIndex, i>>>>
                               ELSE scan(i + 1, popped)
                 ELSE scan(i + 1, stack)
  IN  scan(0, <<>>)

\* the loop over i with the stack of unmatched left offsets; null is <<>>, a
\* found pair [l, r] is << <<l, r>> >>
findMatchingPair(b, leftChar, rightChar, cursor) ==
  LET RECURSIVE scan(_, _)
      scan(i, stack) ==
        IF i >= Len(b) THEN <<>>
        ELSE LET char == <<b[i + 1]>>
             IN  IF char = leftChar THEN scan(i + 1, Append(stack, i))
                 ELSE IF char = rightChar
                 THEN IF Len(stack) = 0 THEN scan(i + 1, stack)
                      ELSE LET leftIndex == stack[Len(stack)]
                               popped == SubSeq(stack, 1, Len(stack) - 1)
                           IN  IF i = cursor THEN <<<<leftIndex, i>>>>
                               ELSE IF leftIndex = cursor THEN <<<<leftIndex, i>>>>
                               ELSE scan(i + 1, popped)
                 ELSE scan(i + 1, stack)
  IN  scan(0, <<>>)

setInsertionPoint(b, p, offset) == State(b, offset)


\* setBuffer that forgets to move the insertion point to the new end
setBufferKeepsCursor(b, p, buffer) == State(buffer, p)

setBuffer(b, p, buffer) == State(buffer, Len(buffer))

\* variant of moveToStart that also empties the buffer, as clear does
moveToStartClearing(b, p) == State(<<>>, 0)

moveToStart(b, p) == State(b, 0)

moveToLineStart(b, p) ==
  LET lastNewline == lastIndexOf(substring(b, 0, p), <<LF>>)
  IN  State(b, IF lastNewline = -1 THEN 0 ELSE lastNewline + 1)

moveToLineEnd(b, p) == State(b, findCurrentLineEnd(b, p))

moveToEnd(b, p) == State(b, Len(b))

moveRight(b, p) == State(b, graphemeRightIndex(b, p))
moveLeft(b, p) == State(b, graphemeLeftIndex(b, p))
moveWordLeft(b, p) == State(b, wordLeftIndex(b, p))
moveBigWordLeft(b, p) == State(b, bigWordLeftIndex(b, p))
moveWordRight(b, p) == State(b, wordRightIndex(b, p))
moveWordRightStart(b, p) == State(b, wordRightStartIndex(b, p))
moveBigWordRightStart(b, p) == State(b, bigWordRightStartIndex(b, p))
\* variant of moveWordRightEnd that leaves the insertion point where it is
moveWordRightEndInPlace(b, p) == State(b, p)

moveWordRightEnd(b, p) == State(b, wordRightEndIndex(b, p))
moveBigWordRightEnd(b, p) == State(b, bigWordRightEndIndex(b, p))


\* insertChar that appends at the end of the buffer instead of at the cursor
insertCharAppend(b, p, c) == State(b \o c, p + Len(c))

insertChar(b, p, c) ==
  State(substring(b, 0, p) \o c \o substringFrom(b, p), p + Len(c))


\* insertStr that advances the cursor by one instead of by string.length
insertStrCursorByOne(b, p, string) ==
  State(substring(b, 0, p) \o string \o substringFrom(b, p), p + 1)

insertStr(b, p, string) ==
  State(substring(b, 0, p) \o string \o substringFrom(b, p), p + Len(string))

insertNewline(b, p) == insertChar(b, p, <<LF>>)

\* LineBuffer.from(input): insertStr into a new, empty buffer
from(input) == insertStr(<<>>, 0, input)

clear(b, p) == State(<<>>, 0)

clearToEnd(b, p) == State(substring(b, 0, p), p)

clearToLineEnd(b, p) ==
  LET lineEnd == findCurrentLineEnd(b, p)
  IN  State(substring(b, 0, p) \o substringFrom(b, lineEnd), p)

clearToInsertionPoint(b, p) == State(substringFrom(b, p), 0)


\* clearRangeSafe without the swap of start > end
clearRangeSafeNoSwap(b, p, start0, end0) ==
  LET start == start0
      end == Min(end0, Len(b))
  IN  IF start >= Len(b) THEN State(b, p)
      ELSE State(substring(b, 0, start) \o substringFrom(b, end),
                 IF p > start
                 THEN IF p > end THEN p - (end - start) ELSE start
                 ELSE p)

clearRangeSafe(b, p, start0, end0) ==
  LET start == IF start0 > end0 THEN end0 ELSE start0
      end1 == IF start0 > end0 THEN start0 ELSE end0
      end == Min(end1, Len(b))
  IN  IF start >= Len(b) THEN State(b, p)
      ELSE State(substring(b, 0, start) \o substringFrom(b, end),
                 IF p > start
                 THEN IF p > end THEN p - (end - start) ELSE start
                 ELSE p)


\* replaceRange that puts a cursor found inside the range at the range start
replaceRangeCursorToStart(b, p, start0, end0, replaceWith) ==
  LET start == IF start0 > end0 THEN end0 ELSE start0
      end1 == IF start0 > end0 THEN start0 ELSE end0
      end == Min(end1, Len(b))
  IN  IF start >= Len(b) THEN State(b, p)
      ELSE State(substring(b, 0, start) \o replaceWith \o substringFrom(b, end),
                 IF p > start
                 THEN IF p > end
                      THEN start + Len(replaceWith) + (p - end)
                      ELSE start
                 ELSE p)

replaceRange(b, p, start0, end0, replaceWith) ==
  LET start == IF start0 > end0 THEN end0 ELSE start0
      end1 == IF start0 > end0 THEN start0 ELSE end0
      end == Min(end1, Len(b))
  IN  IF start >= Len(b) THEN State(b, p)
      ELSE State(substring(b, 0, start) \o replaceWith \o substringFrom(b, end),
                 IF p > start
                 THEN IF p > end
                      THEN start + Len(replaceWith) + (p - end)
                      ELSE start + Len(replaceWith)
                 ELSE p)

uppercaseWord(b, p) ==
  LET range == currentWordRange(b, p)
      word == substring(b, range[1], range[2])
  IN  replaceRange(b, p, range[1], range[2], toUpperCase(word))

lowercaseWord(b, p) ==
  LET range == currentWordRange(b, p)
      word == substring(b, range[1], range[2])
  IN  replaceRange(b, p, range[1], range[2], toLowerCase(word))

\* Below offset 0 the guard lets the call through, this.lines[p] is undefined
\* and reading its toUpperCase throws a TypeError before anything is
\* assigned: the result carries threw and the state the call started from.
switchcaseChar(b, p) ==
  IF p >= Len(b) THEN State(b, p)
  ELSE IF p < 0 THEN [lines |-> b, insertionPoint |-> p, threw |-> TRUE]
  ELSE LET char == <<b[p + 1]>>
           newChar == IF char = toUpperCase(char)
                      THEN toLowerCase(char)
                      ELSE toUpperCase(char)
       IN  replaceRange(b, p, p, p + 1, newChar)

capitalizeChar(b, p) ==
  IF p >= Len(b) THEN State(b, p)
  ELSE IF p < 0 THEN [lines |-> b, insertionPoint |-> p, threw |-> TRUE]
  ELSE LET char == <<b[p + 1]>>
           newChar == toUpperCase(char)
           replaced == replaceRange(b, p, p, p + 1, newChar)
       IN  moveRight(replaced.lines, replaced.insertionPoint)

deleteLeftGrapheme(b, p) == clearRangeSafe(b, p, graphemeLeftIndex(b, p), p)

deleteRightGrapheme(b, p) == clearRangeSafe(b, p, p, graphemeRightIndex(b, p))

deleteWordLeft(b, p) == clearRangeSafe(b, p, wordLeftIndex(b, p), p)

deleteWordRight(b, p) == clearRangeSafe(b, p, p, wordRightIndex(b, p))

swapWords(b, p) ==
  LET current == currentWordRange(b, p)
      currentStart == current[1]
      currentEnd == current[2]
      currentWord == substring(b, currentStart, currentEnd)
      nextWordStart == wordRightStartIndex(b, p)
      nextWordEnd == wordRightIndex(b, p)
      nextWord == substring(b, nextWordStart, nextWordEnd)
  IN  IF nextWordStart < Len(b)
      THEN LET first == replaceRange(b, p, nextWordStart, nextWordEnd, currentWord)
           IN  replaceRange(first.lines, first.insertionPoint,
                            currentStart, currentEnd, nextWord)
      ELSE State(b, p)

\* the second replaceRange reads this.insertionPoint after the first one has
\* moved it; rightIndex and leftGrapheme were taken before
swapGraphemes(b, p) ==
  LET rightIndex == graphemeRightIndex(b, p)
      leftGrapheme == graphemeLeft(b, p)
      rightGrapheme == graphemeRight(b, p)
  IN  IF rightIndex >= Len(b) THEN State(b, p)
      ELSE IF leftGrapheme # <<>> /\ rightGrapheme # <<>>
      THEN LET leftIndex == graphemeLeftIndex(b, p)
               first == replaceRange(b, p, leftIndex, p, rightGrapheme)
           IN  replaceRange(first.lines, first.insertionPoint,
                            first.insertionPoint, rightIndex, leftGrapheme)
      ELSE State(b, p)

moveLineUp(b, p) ==
  LET beforeCursor == substring(b, 0, p)
      beforeLines == splitLF(beforeCursor)
  IN  IF Len(beforeLines) <= 1 THEN State(b, p)
      ELSE LET currentLineIndex == Len(beforeLines) - 1
               currentLineStart == lastIndexOf(beforeCursor, <<LF>>) + 1
               currentLineOffset == p - currentLineStart
               targetLine == beforeLines[currentLineIndex]
               targetLineStart ==
                 lastIndexOfFrom(beforeCursor, <<LF>>, currentLineStart - 2) + 1
               newOffset == Min(currentLineOffset, Len(targetLine))
           IN  State(b, targetLineStart + newOffset)


moveLineDown(b, p) ==
  LET afterCursor == substringFrom(b, p)
      afterLines == splitLF(afterCursor)
  IN  IF Len(afterLines) <= 1 THEN State(b, p)
      ELSE LET beforeCursor == substring(b, 0, p)
               currentLineStart == lastIndexOf(beforeCursor, <<LF>>) + 1
               currentLineOffset == p - currentLineStart
               nextLineStart == p + Len(afterLines[1]) + 1
               nextLine == afterLines[2]
               newOffset == Min(currentLineOffset, Len(nextLine))
           IN  State(b, nextLineStart + newOffset)

\* moveRightUntil that goes to the end of the buffer when nothing is found
moveRightUntilOrEnd(b, p, c, currentLine) ==
  LET found == findCharRight(b, p, c, currentLine)
  IN  IF found # <<>> THEN State(b, found[1]) ELSE State(b, Len(b))

moveRightUntil(b, p, c, currentLine) ==
  LET found == findCharRight(b, p, c, currentLine)
  IN  IF found # <<>> THEN State(b, found[1]) ELSE State(b, p)

moveRightBefore(b, p, c, currentLine) ==
  LET found == findCharRight(b, p, c, currentLine)
  IN  IF found # <<>> THEN State(b, found[1]) ELSE State(b, p)

moveLeftUntil(b, p, c, currentLine) ==
  LET found == findCharLeft(b, p, c, currentLine)
  IN  IF found # <<>> THEN State(b, found[1]) ELSE State(b, p)

moveLeftBefore(b, p, c, currentLine) ==
  LET found == findCharLeft(b, p, c, currentLine)
  IN  IF found # <<>> THEN State(b, found[1]) ELSE State(b, p)

deleteRightUntilChar(b, p, c, currentLine) ==
  LET found == findCharRight(b, p, c, currentLine)
  IN  IF found # <<>> THEN clearRangeSafe(b, p, p, found[1]) ELSE State(b, p)

deleteRightBeforeChar(b, p, c, currentLine) ==
  LET found == findCharRight(b, p, c, currentLine)
  IN  IF found # <<>> THEN clearRangeSafe(b, p, p, found[1]) ELSE State(b, p)

deleteLeftUntilChar(b, p, c, currentLine) ==
  LET found == findCharLeft(b, p, c, currentLine)
  IN  IF found # <<>> THEN clearRangeSafe(b, p, found[1], p) ELSE State(b, p)

deleteLeftBeforeChar(b, p, c, currentLine) ==
  LET found == findCharLeft(b, p, c, currentLine)
  IN  IF found # <<>> THEN clearRangeSafe(b, p, found[1], p) ELSE State(b, p)

(***************************************************************************)
(* Inputs.                                                                 *)
(***************************************************************************)
\* one code point: a unit that is no surrogate, or the emoji's pair
CodePoints == {<<c>> : c \in {u \in Alphabet : ~IsHighSurrogate(u) /\ ~IsLowSurrogate(u)}}
                \cup {Emoji}

\* the strings handed to insertStr and setBuffer: up to two code points
Texts == {<<>>} \cup CodePoints \cup {x \o y : x \in CodePoints, y \in CodePoints}

\* the strings handed to replaceRange: '', 'a', the emoji, 'A.a'
Replacements == {<<>>, <<97>>, Emoji, <<65, 46, 97>>}

\* the characters searched for by findChar* and the *Until / *Before
\* operations: 'a' '.' '\n' '\r'
SearchChars == {<<97>>, <<46>>, <<LF>>, <<CR>>}

\* offsets handed to setInsertionPoint: also one below 0
AnyOffsets == (0 - 1)..(MaxLen + 1)

\* the texts of the scenarios:
\* 'line1\nline2\nline3', 'a\n\r\n', 'ab', 'abc', 'word1 word2',
\* 'first second third', 'hello world', 'hello\nworld', 'This is a test',
\* 'This'
ScenarioTexts ==
  {<<108, 105, 110, 101, 49, 10, 108, 105, 110, 101, 50, 10, 108, 105, 110, 101, 51>>,
   <<97, 10, 13, 10>>,
   <<97, 98>>,
   <<97, 98, 99>>,
   <<119, 111, 114, 100, 49, 32, 119, 111, 114, 100, 50>>,
   <<102, 105, 114, 115, 116, 32, 115, 101, 99, 111, 110, 100, 32, 116, 104, 105, 114, 100>>,
   <<104, 101, 108, 108, 111, 32, 119, 111, 114, 108, 100>>,
   <<104, 101, 108, 108, 111, 10, 119, 111, 114, 108, 100>>,
   <<84, 104, 105, 115, 32, 105, 115, 32, 97, 32, 116, 101, 115, 116>>,
   <<84, 104, 105, 115>>}

\* every buffer of at most MaxLen code units
Buffers == UNION {[1..n -> Alphabet] : n \in 0..MaxLen}

(***************************************************************************)
(* The state machine.  `last` is a history variable.  In an unobserved run *)
(* it stays NoCall and the operations follow one another without end.  An  *)
(* observed run is one call made in a drawn state: `last` then holds the   *)
(* method, its arguments, the state before the call and what it returned.  *)
(***************************************************************************)
NoCall == [op |-> "none", args |-> <<>>, lines |-> <<>>, insertionPoint |-> 0,
           ret |-> <<>>, threw |-> FALSE]

Call(name, args, ret, threw) ==
  [op |-> name, args |-> args, lines |-> lines, insertionPoint |-> insertionPoint,
   ret |-> ret, threw |-> threw]

\* an observed run makes a single call
Ready == observed => last.op = "none"

\* a method that returns nothing and leaves the state post; a buffer grows
\* up to MaxLen code units, a longer scenario text does not grow
Mutate(name, args, post) ==
  /\ Len(post.lines) <= Max(MaxLen, Len(lines))
  /\ lines' = post.lines
  /\ insertionPoint' = post.insertionPoint
  /\ observed' = observed
  /\ last' = IF observed THEN Call(name, args, <<>>, FALSE) ELSE last

\* a method that returns ret and leaves the state post
MutateReturn(name, args, post, ret) ==
  /\ Len(post.lines) <= Max(MaxLen, Len(lines))
  /\ lines' = post.lines
  /\ insertionPoint' = post.insertionPoint
  /\ observed' = observed
  /\ last' = IF observed THEN Call(name, args, ret, FALSE) ELSE last

\* a method that only returns ret (or throws)
Query(name, args, ret, threw) ==
  /\ UNCHANGED <<lines, insertionPoint, observed>>
  /\ last' = IF observed THEN Call(name, args, ret, threw) ELSE last

\* new LineBuffer()
New == State(<<>>, 0)

\* LineBuffer.new() or LineBuffer.from(text); nothing is observed
Init ==
  /\ \E s \in {New} \cup {from(t) : t \in Texts} :
       /\ Len(s.lines) <= MaxLen
       /\ lines = s.lines
       /\ insertionPoint = s.insertionPoint
  /\ observed = FALSE
  /\ last = NoCall

\* any buffer with the insertion point anywhere in it; every call is observed
InitObserved ==
  /\ lines \in Buffers
  /\ insertionPoint \in 0..Len(lines)
  /\ observed = TRUE
  /\ last = NoCall

\* bufferWith(text) and setInsertionPoint(offset) for a scenario text and an
\* offset within it; every call is observed
InitScenario ==
  /\ lines \in ScenarioTexts
  /\ insertionPoint \in 0..Len(lines)
  /\ observed = TRUE
  /\ last = NoCall

\* findMatchingPair('(', ')', cursor) and findMatchingPair(')', '(', cursor)
FindMatchingPair ==
  /\ Ready
  /\ \E d \in {<<40, 41>>, <<41, 40>>}, cursor \in (0 - 1)..(MaxPairLen + 1) :
       Query("findMatchingPair", <<<<d[1]>>, <<d[2]>>, cursor>>,
             findMatchingPair(lines, <<d[1]>>, <<d[2]>>, cursor), FALSE)

IsValid ==
  /\ Ready
  /\ Query("isValid", <<>>, <<isValid(lines, insertionPoint)>>, FALSE)

AssertValid ==
  /\ Ready
  /\ Query("assertValid", <<>>, <<>>, ~isValid(lines, insertionPoint))

SetInsertionPoint ==
  /\ Ready
  /\ \E offset \in AnyOffsets :
       Mutate("setInsertionPoint", <<offset>>,
              setInsertionPoint(lines, insertionPoint, offset))

SetBuffer ==
  /\ Ready
  /\ \E buffer \in Texts :
       Mutate("setBuffer", <<buffer>>, setBuffer(lines, insertionPoint, buffer))

MoveToStart ==
  /\ Ready
  /\ Mutate("moveToStart", <<>>, moveToStart(lines, insertionPoint))
MoveToLineStart ==
  /\ Ready
  /\ Mutate("moveToLineStart", <<>>, moveToLineStart(lines, insertionPoint))
MoveToLineEnd ==
  /\ Ready
  /\ Mutate("moveToLineEnd", <<>>, moveToLineEnd(lines, insertionPoint))
MoveToEnd ==
  /\ Ready
  /\ Mutate("moveToEnd", <<>>, moveToEnd(lines, insertionPoint))
MoveRight ==
  /\ Ready
  /\ Mutate("moveRight", <<>>, moveRight(lines, insertionPoint))
MoveLeft ==
  /\ Ready
  /\ Mutate("moveLeft", <<>>, moveLeft(lines, insertionPoint))
MoveWordLeft ==
  /\ Ready
  /\ Mutate("moveWordLeft", <<>>, moveWordLeft(lines, insertionPoint))
MoveBigWordLeft ==
  /\ Ready
  /\ Mutate("moveBigWordLeft", <<>>, moveBigWordLeft(lines, insertionPoint))
MoveWordRight ==
  /\ Ready
  /\ Mutate("moveWordRight", <<>>, moveWordRight(lines, insertionPoint))
MoveWordRightStart ==
  /\ Ready
  /\ Mutate("moveWordRightStart", <<>>, moveWordRightStart(lines, insertionPoint))
MoveBigWordRightStart ==
  /\ Ready
  /\ Mutate("moveBigWordRightStart", <<>>, moveBigWordRightStart(lines, insertionPoint))
MoveWordRightEnd ==
  /\ Ready
  /\ Mutate("moveWordRightEnd", <<>>, moveWordRightEnd(lines, insertionPoint))
MoveBigWordRightEnd ==
  /\ Ready
  /\ Mutate("moveBigWordRightEnd", <<>>, moveBigWordRightEnd(lines, insertionPoint))

InsertChar ==
  /\ Ready
  /\ \E c \in CodePoints :
       Mutate("insertChar", <<c>>, insertChar(lines, insertionPoint, c))

InsertStr ==
  /\ Ready
  /\ \E string \in Texts :
       Mutate("insertStr", <<string>>, insertStr(lines, insertionPoint, string))

\* LineBuffer.from(input): the session goes on with a freshly built buffer
From ==
  /\ Ready
  /\ \E input \in Texts :
       Mutate("from", <<input>>, from(input))

InsertNewline ==
  /\ Ready
  /\ Mutate("insertNewline", <<>>, insertNewline(lines, insertionPoint))

Clear ==
  /\ Ready
  /\ Mutate("clear", <<>>, clear(lines, insertionPoint))
ClearToEnd ==
  /\ Ready
  /\ Mutate("clearToEnd", <<>>, clearToEnd(lines, insertionPoint))
ClearToLineEnd ==
  /\ Ready
  /\ Mutate("clearToLineEnd", <<>>, clearToLineEnd(lines, insertionPoint))
ClearToInsertionPoint ==
  /\ Ready
  /\ Mutate("clearToInsertionPoint", <<>>, clearToInsertionPoint(lines, insertionPoint))

ClearRangeSafe ==
  /\ Ready
  /\ \E start \in 0..(MaxLen + 1), end \in 0..(MaxLen + 1) :
       Mutate("clearRangeSafe", <<start, end>>,
              clearRangeSafe(lines, insertionPoint, start, end))

ReplaceRange ==
  /\ Ready
  /\ \E start \in 0..(MaxLen + 1), end \in 0..(MaxLen + 1), replaceWith \in Replacements :
       Mutate("replaceRange", <<start, end, replaceWith>>,
              replaceRange(lines, insertionPoint, start, end, replaceWith))

\* clearRangeSafe(start, end) with any two numbers, also below 0
ClearRangeSafeAny ==
  /\ Ready
  /\ \E start \in AnyOffsets, end \in AnyOffsets :
       Mutate("clearRangeSafe", <<start, end>>,
              clearRangeSafe(lines, insertionPoint, start, end))

\* replaceRange(start, end, replaceWith) with any two numbers, also below 0
ReplaceRangeAny ==
  /\ Ready
  /\ \E start \in AnyOffsets, end \in AnyOffsets, replaceWith \in Replacements :
       Mutate("replaceRange", <<start, end, replaceWith>>,
              replaceRange(lines, insertionPoint, start, end, replaceWith))

UppercaseWord ==
  /\ Ready
  /\ Mutate("uppercaseWord", <<>>, uppercaseWord(lines, insertionPoint))
LowercaseWord ==
  /\ Ready
  /\ Mutate("lowercaseWord", <<>>, lowercaseWord(lines, insertionPoint))
SwitchcaseChar ==
  /\ Ready
  /\ LET post == switchcaseChar(lines, insertionPoint)
     IN  IF "threw" \in DOMAIN post
         THEN Query("switchcaseChar", <<>>, <<>>, TRUE)
         ELSE Mutate("switchcaseChar", <<>>, post)
CapitalizeChar ==
  /\ Ready
  /\ LET post == capitalizeChar(lines, insertionPoint)
     IN  IF "threw" \in DOMAIN post
         THEN Query("capitalizeChar", <<>>, <<>>, TRUE)
         ELSE Mutate("capitalizeChar", <<>>, post)

DeleteLeftGrapheme ==
  /\ Ready
  /\ Mutate("deleteLeftGrapheme", <<>>, deleteLeftGrapheme(lines, insertionPoint))
DeleteRightGrapheme ==
  /\ Ready
  /\ Mutate("deleteRightGrapheme", <<>>, deleteRightGrapheme(lines, insertionPoint))
DeleteWordLeft ==
  /\ Ready
  /\ Mutate("deleteWordLeft", <<>>, deleteWordLeft(lines, insertionPoint))
DeleteWordRight ==
  /\ Ready
  /\ Mutate("deleteWordRight", <<>>, deleteWordRight(lines, insertionPoint))

SwapWords ==
  /\ Ready
  /\ Mutate("swapWords", <<>>, swapWords(lines, insertionPoint))
SwapGraphemes ==
  /\ Ready
  /\ Mutate("swapGraphemes", <<>>, swapGraphemes(lines, insertionPoint))

MoveLineUp ==
  /\ Ready
  /\ Mutate("moveLineUp", <<>>, moveLineUp(lines, insertionPoint))
MoveLineDown ==
  /\ Ready
  /\ Mutate("moveLineDown", <<>>, moveLineDown(lines, insertionPoint))

MoveRightUntil ==
  /\ Ready
  /\ \E c \in SearchChars, currentLine \in BOOLEAN :
       LET post == moveRightUntil(lines, insertionPoint, c, currentLine)
       IN  MutateReturn("moveRightUntil", <<c, currentLine>>, post, <<post.insertionPoint>>)

MoveRightBefore ==
  /\ Ready
  /\ \E c \in SearchChars, currentLine \in BOOLEAN :
       LET post == moveRightBefore(lines, insertionPoint, c, currentLine)
       IN  MutateReturn("moveRightBefore", <<c, currentLine>>, post, <<post.insertionPoint>>)

MoveLeftUntil ==
  /\ Ready
  /\ \E c \in SearchChars, currentLine \in BOOLEAN :
       LET post == moveLeftUntil(lines, insertionPoint, c, currentLine)
       IN  MutateReturn("moveLeftUntil", <<c, currentLine>>, post, <<post.insertionPoint>>)

MoveLeftBefore ==
  /\ Ready
  /\ \E c \in SearchChars, currentLine \in BOOLEAN :
       LET post == moveLeftBefore(lines, insertionPoint, c, currentLine)
       IN  MutateReturn("moveLeftBefore", <<c, currentLine>>, post, <<post.insertionPoint>>)

DeleteRightUntilChar ==
  /\ Ready
  /\ \E c \in SearchChars, currentLine \in BOOLEAN :
       Mutate("deleteRightUntilChar", <<c, currentLine>>,
              deleteRightUntilChar(lines, insertionPoint, c, currentLine))

DeleteRightBeforeChar ==
  /\ Ready
  /\ \E c \in SearchChars, currentLine \in BOOLEAN :
       Mutate("deleteRightBeforeChar", <<c, currentLine>>,
              deleteRightBeforeChar(lines, insertionPoint, c, currentLine))

DeleteLeftUntilChar ==
  /\ Ready
  /\ \E c \in SearchChars, currentLine \in BOOLEAN :
       Mutate("deleteLeftUntilChar", <<c, currentLine>>,
              deleteLeftUntilChar(lines, insertionPoint, c, currentLine))

DeleteLeftBeforeChar ==
  /\ Ready
  /\ \E c \in SearchChars, currentLine \in BOOLEAN :
       Mutate("deleteLeftBeforeChar", <<c, currentLine>>,
              deleteLeftBeforeChar(lines, insertionPoint, c, currentLine))

\* what the query without arguments called name returns
QueryResult(name, b, p) ==
  CASE name = "len" -> len(b)
    [] name = "isEmpty" -> isEmpty(b)
    [] name = "onWhitespace" -> onWhitespace(b, p)
    [] name = "graphemeRight" -> graphemeRight(b, p)
    [] name = "graphemeLeft" -> graphemeLeft(b, p)
    [] name = "line" -> line(b, p)
    [] name = "numLines" -> numLines(b)
    [] name = "isCursorAtFirstLine" -> isCursorAtFirstLine(b, p)
    [] name = "isCursorAtLastLine" -> isCursorAtLastLine(b, p)
    [] name = "findCurrentLineEnd" -> findCurrentLineEnd(b, p)
    [] name = "graphemeRightIndex" -> graphemeRightIndex(b, p)
    [] name = "graphemeLeftIndex" -> graphemeLeftIndex(b, p)
    [] name = "wordRightIndex" -> wordRightIndex(b, p)
    [] name = "bigWordRightIndex" -> bigWordRightIndex(b, p)
    [] name = "wordRightEndIndex" -> wordRightEndIndex(b, p)
    [] name = "bigWordRightEndIndex" -> bigWordRightEndIndex(b, p)
    [] name = "wordRightStartIndex" -> wordRightStartIndex(b, p)
    [] name = "bigWordRightStartIndex" -> bigWordRightStartIndex(b, p)
    [] name = "wordLeftIndex" -> wordLeftIndex(b, p)
    [] name = "bigWordLeftIndex" -> bigWordLeftIndex(b, p)
    [] name = "currentWordRange" -> currentWordRange(b, p)
    [] name = "currentLineRange" -> currentLineRange(b, p)

\* a call of one of the queries without arguments
QueryCall ==
  /\ Ready
  /\ \E name \in
       {"len", "isEmpty", "onWhitespace", "graphemeRight", "graphemeLeft", "line", "numLines", "isCursorAtFirstLine", "isCursorAtLastLine",
        "findCurrentLineEnd", "graphemeRightIndex", "graphemeLeftIndex", "wordRightIndex",
        "bigWordRightIndex", "wordRightEndIndex", "bigWordRightEndIndex", "wordRightStartIndex",
        "bigWordRightStartIndex", "wordLeftIndex", "bigWordLeftIndex", "currentWordRange", "currentLineRange"} :
       Query(name, <<>>, <<QueryResult(name, lines, insertionPoint)>>, FALSE)

FindCharRight ==
  /\ Ready
  /\ \E c \in SearchChars, currentLine \in BOOLEAN :
       Query("findCharRight", <<c, currentLine>>,
             findCharRight(lines, insertionPoint, c, currentLine), FALSE)

FindCharLeft ==
  /\ Ready
  /\ \E c \in SearchChars, currentLine \in BOOLEAN :
       Query("findCharLeft", <<c, currentLine>>,
             findCharLeft(lines, insertionPoint, c, currentLine), FALSE)

\* the operations that only move the insertion point
Navigation ==
  \/ MoveToStart \/ MoveToLineStart \/ MoveToLineEnd \/ MoveToEnd
  \/ MoveRight \/ MoveLeft
  \/ MoveWordLeft \/ MoveBigWordLeft \/ MoveWordRight
  \/ MoveWordRightStart \/ MoveBigWordRightStart
  \/ MoveWordRightEnd \/ MoveBigWordRightEnd
  \/ MoveLineUp \/ MoveLineDown

\* the moves to a searched character
SearchMove == MoveRightUntil \/ MoveRightBefore \/ MoveLeftUntil \/ MoveLeftBefore

\* the operations that insert text at the insertion point
Insertion == InsertChar \/ InsertStr \/ InsertNewline \/ From

\* the operations that remove text
Deletion ==
  \/ Clear \/ ClearToEnd \/ ClearToLineEnd \/ ClearToInsertionPoint
  \/ DeleteLeftGrapheme \/ DeleteRightGrapheme \/ DeleteWordLeft \/ DeleteWordRight

\* the deletions up to a searched character
SearchDelete ==
  \/ DeleteRightUntilChar \/ DeleteRightBeforeChar
  \/ DeleteLeftUntilChar \/ DeleteLeftBeforeChar

\* the case and swap transforms
Transform ==
  \/ UppercaseWord \/ LowercaseWord \/ SwitchcaseChar \/ CapitalizeChar
  \/ SwapWords \/ SwapGraphemes

\* the two range primitives
Range == ClearRangeSafe \/ ReplaceRange

\* every public operation that changes the buffer or moves the insertion
\* point, except the direct assignment setInsertionPoint
Next ==
  \/ Navigation \/ SearchMove \/ Insertion \/ Deletion \/ SearchDelete
  \/ Transform \/ Range \/ SetBuffer

\* the operations follow one another, from new() or from(text)
Spec == Init /\ [][Next]_vars

\* one observed call of a navigation, insertion, deletion or transform, in any
\* state whose insertion point lies within the buffer
SpecCall ==
  InitObserved /\ [][Navigation \/ Insertion \/ Deletion \/ Transform]_vars

\* one observed call of one of the two range primitives, in any state whose
\* insertion point lies within the buffer
SpecRange == InitObserved /\ [][Range]_vars

\* one observed call of one of the two range primitives with any arguments
SpecAnyRange == InitObserved /\ [][ClearRangeSafeAny \/ ReplaceRangeAny]_vars

\* one observed call, on the empty buffer of new LineBuffer(), of any
\* navigation, search, deletion or transform, or of one of the two range
\* primitives with any arguments
SpecEmpty ==
  /\ lines = New.lines
  /\ insertionPoint = New.insertionPoint
  /\ observed = TRUE
  /\ last = NoCall
  /\ [][Navigation \/ SearchMove \/ Deletion \/ SearchDelete \/ Transform
          \/ ClearRangeSafeAny \/ ReplaceRangeAny]_vars

\* one observed navigation, deletion or transform on a scenario text
SpecScenario == InitScenario /\ [][Navigation \/ Deletion \/ Transform]_vars

\* one observed query or navigation, on any buffer or a scenario text
SpecQuery ==
  /\ InitObserved \/ InitScenario
  /\ [][QueryCall \/ Navigation]_vars

\* one observed character search, or move or deletion up to a searched
\* character, on any buffer or a scenario text
SpecSearch ==
  /\ InitObserved \/ InitScenario
  /\ [][FindCharRight \/ FindCharLeft \/ SearchMove \/ SearchDelete]_vars

\* one observed navigation, move to a searched character or query, in any
\* state whose insertion point lies within the buffer
SpecFrame ==
  /\ InitObserved
  /\ [][Navigation \/ SearchMove \/ QueryCall \/ IsValid \/ FindCharRight \/ FindCharLeft
          \/ FindMatchingPair]_vars

\* the state each of the six moves leaves, tabulated for every buffer of up
\* to MaxRepeatLen code units and every insertion point within it
RepeatedMoves ==
  [s \in {<<b, p>> \in (UNION {[1..n -> Alphabet] : n \in 0..MaxRepeatLen})
                          \X (0..MaxRepeatLen) : p <= Len(b)} |->
     [moveRight |-> moveRight(s[1], s[2]),
      moveWordRight |-> moveWordRight(s[1], s[2]),
      moveWordRightEnd |-> moveWordRightEnd(s[1], s[2]),
      moveLeft |-> moveLeft(s[1], s[2]),
      moveWordLeft |-> moveWordLeft(s[1], s[2]),
      moveBigWordLeft |-> moveBigWordLeft(s[1], s[2])]] @@ <<>>

\* the move named at the start is called once more
RepeatMove == Mutate(last.op, <<>>, RepeatedMoves[<<lines, insertionPoint>>][last.op])

\* one of six moves repeated without end, from any buffer of up to
\* MaxRepeatLen code units and any insertion point within it; `last` names
\* the move and holds the state in which the repetition began.  The caller
\* goes on calling for as long as a call still moves the insertion point.
SpecProgress ==
  /\ lines \in UNION {[1..n -> Alphabet] : n \in 0..MaxRepeatLen}
  /\ insertionPoint \in 0..Len(lines)
  /\ observed = FALSE
  /\ \E name \in {"moveRight", "moveWordRight", "moveWordRightEnd",
                   "moveLeft", "moveWordLeft", "moveBigWordLeft"} :
       last = Call(name, <<>>, <<>>, FALSE)
  /\ [][RepeatMove]_vars
  /\ WF_vars(RepeatMove)

\* one observed search for a matching pair, after LineBuffer.from(text) for a
\* text of up to MaxPairLen code units over '(' ')' 'a'
SpecPair ==
  /\ lines \in UNION {[1..n -> {40, 41, 97}] : n \in 0..MaxPairLen}
  /\ insertionPoint = Len(lines)
  /\ observed = TRUE
  /\ last = NoCall
  /\ [][FindMatchingPair]_vars

\* one observed call of an operation that accepts any insertion point, on a
\* buffer whose insertion point was assigned directly, to any offset
SpecAssigned ==
  /\ lines \in Buffers
  /\ insertionPoint \in AnyOffsets
  /\ observed = TRUE
  /\ last = NoCall
  /\ [][SetInsertionPoint \/ IsValid \/ AssertValid \/ SetBuffer
          \/ SwitchcaseChar \/ CapitalizeChar]_vars

(***************************************************************************)
(* Vocabulary of the properties, stated on code units and independent of   *)
(* the helpers of LineBuffer.                                              *)
(***************************************************************************)
\* I2: the offset lies within the buffer
InRange(b, p) == p >= 0 /\ p <= Len(b)

\* the offset splits a surrogate pair: a high surrogate right before it, a
\* low surrogate right after it
InsidePair(b, p) ==
  p > 0 /\ p < Len(b) /\ IsHighSurrogate(b[p]) /\ IsLowSurrogate(b[p + 1])

\* Extended grapheme clusters (UAX #29) over the code units of Alphabet.
\* U+0301 has Grapheme_Cluster_Break = Extend
IsExtend(c) == c = 769

\* the code point that ends at offset p > 0 is CR, LF or a lone surrogate
\* (Grapheme_Cluster_Break = CR, LF, Control): a cluster always ends behind it
EndsCluster(b, p) ==
  \/ b[p] \in {CR, LF}
  \/ IsHighSurrogate(b[p])
  \/ IsLowSurrogate(b[p]) /\ ~(p >= 2 /\ IsHighSurrogate(b[p - 1]))

\* the offset lies strictly inside an extended grapheme cluster: inside a
\* surrogate pair, between CR and LF (GB3), or in front of an Extend code
\* point that attaches to the code point before it (GB9)
InsideGrapheme(b, p) ==
  /\ p > 0
  /\ p < Len(b)
  /\ \/ InsidePair(b, p)
     \/ b[p] = CR /\ b[p + 1] = LF
     \/ IsExtend(b[p + 1]) /\ ~EndsCluster(b, p)

\* I1 and I2: within the buffer and inside no grapheme
OnGraphemeBoundary(b, p) == InRange(b, p) /\ ~InsideGrapheme(b, p)

\* the start of the grapheme that ends at the boundary p > 0
LeftGraphemeStart(b, p) ==
  CHOOSE q \in 0..(p - 1) :
    /\ OnGraphemeBoundary(b, q)
    /\ \A r \in (q + 1)..(p - 1) : ~OnGraphemeBoundary(b, r)

\* the number of code units of the grapheme that ends at the boundary p > 0
LeftGraphemeLength(b, p) == p - LeftGraphemeStart(b, p)

\* b[lo, hi) for 0 <= lo <= hi <= Len(b)
Slice(b, lo, hi) == SubSeq(b, lo + 1, hi)

\* the state before the observed call
Before == State(last.lines, last.insertionPoint)
\* the state after it
After == State(lines, insertionPoint)

(***************************************************************************)
(* Properties.                                                             *)
(***************************************************************************)

\* C1: after any sequence of public operations other than setInsertionPoint,
\* from new() or from(text), isValid() is true: the insertion point lies on a
\* grapheme boundary.  (Violated: moveWordLeft after from(U+1F60A) stops
\* between the two surrogates.)
C1_AlwaysValid == isValid(lines, insertionPoint)

\* C1, witness: the buffer is the emoji and the insertion point is between
\* its two code units
C1_Witness == lines = Emoji /\ insertionPoint = 1

\* C2: after any sequence of public operations other than setInsertionPoint,
\* from new() or from(text), 0 <= insertionPoint <= len(buffer).  (Violated:
\* clearRangeSafe(-1, 1) after from('a') leaves the insertion point at -1.)
C2_InsertionPointInRange == InRange(lines, insertionPoint)

\* C2, witness: clearRangeSafe(-1, 1) emptied the buffer 'a' and left the
\* insertion point at -1
C2_Witness ==
  /\ last.op = "clearRangeSafe"
  /\ last.args = <<0 - 1, 1>>
  /\ last.lines = <<97>>
  /\ last.insertionPoint = 1
  /\ lines = <<>>
  /\ insertionPoint = 0 - 1

\* the arguments of the observed range call, normalised as the claims state:
\* swapped when start > end, end clamped to the length of the buffer
RangeStart == Min(last.args[1], last.args[2])
RangeEnd == Min(Max(last.args[1], last.args[2]), Len(last.lines))

\* C3: clearRangeSafe(start, end) swaps start > end, clamps end to len, removes
\* exactly buffer[start, end) and leaves the cursor unchanged if cursor < start,
\* at start if start <= cursor <= end, and less (end - start) if cursor > end;
\* with start >= len it changes nothing.
C3_ClearRangeSafeLaw ==
  last.op = "clearRangeSafe" =>
    LET b == last.lines
        p == last.insertionPoint
        s == RangeStart
        e == RangeEnd
    IN  IF s >= Len(b) THEN After = Before
        ELSE /\ lines = Slice(b, 0, s) \o Slice(b, e, Len(b))
             /\ insertionPoint = IF p < s THEN p
                                 ELSE IF p <= e THEN s
                                 ELSE p - (e - s)

\* C3, witness: a call with start > end that removed text left of the cursor
C3_Witness ==
  /\ last.op = "clearRangeSafe"
  /\ last.args[1] > last.args[2]
  /\ RangeEnd > RangeStart
  /\ last.insertionPoint > RangeEnd
  /\ insertionPoint = last.insertionPoint - (RangeEnd - RangeStart)

\* C4 as stated: replaceRange(start, end, text) replaces exactly
\* buffer[start, end) by text and leaves the cursor unchanged if cursor < start,
\* at start if start <= cursor <= end, and at cursor - (end - start) + len(text)
\* if cursor > end.
C4_ReplaceRangeLawAsStated ==
  last.op = "replaceRange" =>
    LET b == last.lines
        p == last.insertionPoint
        s == RangeStart
        e == RangeEnd
        text == last.args[3]
    IN  IF s >= Len(b) THEN After = Before
        ELSE /\ lines = Slice(b, 0, s) \o text \o Slice(b, e, Len(b))
             /\ insertionPoint = IF p < s THEN p
                                 ELSE IF p <= e THEN s
                                 ELSE p - (e - s) + Len(text)

\* C4, amended: replaceRange(start, end, text) normalises and clamps as
\* clearRangeSafe does, replaces exactly buffer[start, end) by text, and leaves
\* the cursor unchanged if cursor <= start, at start + len(text) (the end of
\* the replacement) if start < cursor <= end, and at
\* cursor - (end - start) + len(text) if cursor > end; with start >= len it
\* changes nothing.
C4_ReplaceRangeLaw ==
  last.op = "replaceRange" =>
    LET b == last.lines
        p == last.insertionPoint
        s == RangeStart
        e == RangeEnd
        text == last.args[3]
    IN  IF s >= Len(b) THEN After = Before
        ELSE /\ lines = Slice(b, 0, s) \o text \o Slice(b, e, Len(b))
             /\ insertionPoint = IF p <= s THEN p
                                 ELSE IF p <= e THEN s + Len(text)
                                 ELSE p - (e - s) + Len(text)

\* C4, witness: the cursor was strictly inside the replaced range and the
\* replacement is not empty, so the cursor is behind the replacement
C4_Witness ==
  /\ last.op = "replaceRange"
  /\ RangeStart < last.insertionPoint
  /\ last.insertionPoint < RangeEnd
  /\ Len(last.args[3]) = 2
  /\ insertionPoint = RangeStart + 2

\* the text the observed deletion removed: the code units of the buffer
\* before the call that started at the cursor the call left
Removed ==
  Slice(last.lines, insertionPoint,
        insertionPoint + (Len(last.lines) - Len(lines)))

\* C5: round trip.  From a buffer b with the cursor p on a grapheme boundary,
\* deleteLeftGrapheme() followed by insertStr(g), g the removed text, restores
\* b and p; with p = 0, g is empty and nothing changed.
C5_DeleteInsertRoundTrip ==
  (last.op = "deleteLeftGrapheme" /\ OnGraphemeBoundary(last.lines, last.insertionPoint)) =>
    /\ insertStr(lines, insertionPoint, Removed) = Before
    /\ last.insertionPoint = 0 => (Removed = <<>> /\ After = Before)

\* C5, witness: the emoji was deleted in front of further text
C5_Witness ==
  /\ last.op = "deleteLeftGrapheme"
  /\ OnGraphemeBoundary(last.lines, last.insertionPoint)
  /\ Removed = Emoji
  /\ insertionPoint < Len(lines)

\* C6: on the empty buffer every navigation operation leaves the cursor at 0
\* and every deletion, clear, case or swap operation leaves the buffer empty
\* and the cursor at 0 (the moves to a searched character return 0); none
\* raises an error.  replaceRange, which can insert text, is not one of
\* these operations.
\* (Violated: clearRangeSafe(0, -1) leaves the cursor at -1.)
C6_EmptyBufferNoOp ==
  last.op \notin {"none", "replaceRange"} =>
    /\ last.lines = <<>> /\ last.insertionPoint = 0
    /\ lines = <<>>
    /\ insertionPoint = 0
    /\ ~last.threw
    /\ last.op \in {"moveRightUntil", "moveRightBefore", "moveLeftUntil", "moveLeftBefore"}
         => last.ret = <<0>>

\* C6, witness: clearRangeSafe(0, -1) on the empty buffer left the buffer
\* empty and the cursor at -1
C6_Witness ==
  /\ last.op = "clearRangeSafe"
  /\ last.args = <<0, 0 - 1>>
  /\ last.lines = <<>>
  /\ last.insertionPoint = 0
  /\ lines = <<>>
  /\ insertionPoint = 0 - 1

\* C7: setInsertionPoint(n) stores n unchanged and leaves the buffer alone;
\* isValid() is then true exactly when 0 <= n <= len and n is inside no
\* grapheme, and assertValid() throws exactly when isValid() is false.
\* (Violated: in 'a' U+0301, and in CR LF, offset 1 is inside the grapheme
\* and isValid() is true.)
C7_AssignedPointIsReported ==
  /\ last.op = "setInsertionPoint" =>
       /\ insertionPoint = last.args[1]
       /\ lines = last.lines
       /\ isValid(lines, insertionPoint) = OnGraphemeBoundary(lines, insertionPoint)
  /\ last.op = "isValid" =>
       /\ last.ret = <<OnGraphemeBoundary(last.lines, last.insertionPoint)>>
       /\ After = Before
  /\ last.op = "assertValid" =>
       /\ last.threw = ~OnGraphemeBoundary(last.lines, last.insertionPoint)
       /\ After = Before

\* C7, witness: isValid() returned true with the insertion point between 'a'
\* and the combining accent of one grapheme
C7_Witness ==
  /\ last.op = "isValid"
  /\ last.lines = <<97, 769>>
  /\ last.insertionPoint = 1
  /\ last.ret = <<TRUE>>

\* C8: insertStr(s) and insertChar(s) at the cursor p give
\* old[0, p) + s + old[p, len) with the cursor at p + len(s); from(s) gives
\* the buffer s with the cursor at len(s).
C8_InsertAtCursor ==
  /\ last.op \in {"insertStr", "insertChar"} =>
       LET b == last.lines
           p == last.insertionPoint
           s == last.args[1]
       IN  /\ lines = Slice(b, 0, p) \o s \o Slice(b, p, Len(b))
           /\ insertionPoint = p + Len(s)
  /\ last.op = "from" =>
       /\ lines = last.args[1]
       /\ insertionPoint = Len(last.args[1])

\* C8, witness: a code unit was inserted between two others
C8_Witness ==
  /\ last.op = "insertStr"
  /\ Len(last.args[1]) = 1
  /\ last.insertionPoint = 1
  /\ Len(last.lines) = 2

\* C9: setBuffer(t), from any state, makes the buffer t and the insertion
\* point len(t).
C9_SetBufferResetsToEnd ==
  last.op = "setBuffer" =>
    /\ lines = last.args[1]
    /\ insertionPoint = Len(last.args[1])

\* C9, witness: a multi-line text was set while the insertion point was
\* outside the old buffer
C9_Witness ==
  /\ last.op = "setBuffer"
  /\ ~InRange(last.lines, last.insertionPoint)
  /\ \E k \in 1..Len(lines) : lines[k] = LF
  /\ Len(lines) = 2

\* C10: deleteLeftGrapheme, with the cursor p on a grapheme boundary, removes
\* exactly the grapheme that ends at p (both code units of a surrogate pair),
\* puts the cursor at that grapheme's start and leaves the rest of the text
\* alone; with p = 0 it changes nothing.  (Violated: behind 'a' U+0301, and
\* behind CR LF, only the last code point of the grapheme is removed.)
C10_DeleteLeftGrapheme ==
  (last.op = "deleteLeftGrapheme" /\ OnGraphemeBoundary(last.lines, last.insertionPoint)) =>
    LET b == last.lines
        p == last.insertionPoint
    IN  IF p = 0 THEN After = Before
        ELSE LET k == LeftGraphemeLength(b, p)
             IN  /\ lines = Slice(b, 0, p - k) \o Slice(b, p, Len(b))
                 /\ insertionPoint = p - k

\* C10, witness: behind the grapheme 'a' U+0301 only the accent was removed
C10_Witness ==
  /\ last.op = "deleteLeftGrapheme"
  /\ last.lines = <<97, 769>>
  /\ last.insertionPoint = 2
  /\ lines = <<97>>
  /\ insertionPoint = 1

\* the end of the grapheme that starts at the boundary p < Len(b)
RightGraphemeEnd(b, p) ==
  CHOOSE q \in (p + 1)..Len(b) :
    /\ OnGraphemeBoundary(b, q)
    /\ \A r \in (p + 1)..(q - 1) : ~OnGraphemeBoundary(b, r)

\* C11: from a cursor on a grapheme boundary, moveRight puts the cursor behind
\* the grapheme on its right and moveLeft in front of the grapheme on its
\* left; graphemeLeftIndex is 0 at offset 0 and graphemeRightIndex is
\* len(buffer) at the end, so the cursor stays at either end; the buffer is
\* left alone.  (Violated: over 'a' U+0301, and over CR LF, the cursor moves
\* by one code point and stops inside the grapheme.)
C11_MoveByGrapheme ==
  /\ (last.op = "moveRight" /\ OnGraphemeBoundary(last.lines, last.insertionPoint)) =>
       LET b == last.lines
           p == last.insertionPoint
       IN  /\ lines = b
           /\ p = Len(b) => graphemeRightIndex(b, p) = Len(b)
           /\ insertionPoint = IF p = Len(b) THEN p ELSE RightGraphemeEnd(b, p)
  /\ (last.op = "moveLeft" /\ OnGraphemeBoundary(last.lines, last.insertionPoint)) =>
       LET b == last.lines
           p == last.insertionPoint
       IN  /\ lines = b
           /\ p = 0 => graphemeLeftIndex(b, p) = 0
           /\ insertionPoint = IF p = 0 THEN p ELSE LeftGraphemeStart(b, p)

\* C11, witness: moveLeft from the end of 'a' U+0301 stopped in front of the
\* accent
C11_Witness ==
  /\ last.op = "moveLeft"
  /\ last.lines = <<97, 769>>
  /\ last.insertionPoint = 2
  /\ insertionPoint = 1

\* the class of a code unit: word character, white space or anything else
CharClass(c) == IF IsWordChar(c) THEN "word" ELSE IF IsSpaceChar(c) THEN "space" ELSE "other"

\* the grapheme that starts at the boundary q is the last grapheme of a word:
\* it is not white space and what follows it, if anything, is of another class
IsLastGraphemeOfWord(b, q) ==
  /\ q < Len(b)
  /\ OnGraphemeBoundary(b, q)
  /\ CharClass(b[q + 1]) # "space"
  /\ LET e == RightGraphemeEnd(b, q)
     IN  e = Len(b) \/ CharClass(b[e + 1]) # CharClass(b[q + 1])

\* C12: moveWordRightEnd puts the cursor on the start offset of the nearest
\* last grapheme of a word that starts strictly after the cursor, and leaves
\* the cursor where it is when there is none; the buffer is left alone.
\* (Violated: in 'a a' from 0 the cursor goes to 1, the white space behind the
\* first word, not to 2; in 'word and another one' from 0 it goes to 4, not 3.)
C12_MoveWordRightEnd ==
  (last.op = "moveWordRightEnd" /\ OnGraphemeBoundary(last.lines, last.insertionPoint)) =>
    LET b == last.lines
        p == last.insertionPoint
        targets == {q \in (p + 1)..Len(b) : IsLastGraphemeOfWord(b, q)}
    IN  /\ lines = b
        /\ insertionPoint = IF targets = {} THEN p ELSE Least(targets)

\* C12, witness: in 'a a' moveWordRightEnd from 0 stopped on the white space
C12_Witness ==
  /\ last.op = "moveWordRightEnd"
  /\ last.lines = <<97, 32, 97>>
  /\ last.insertionPoint = 0
  /\ insertionPoint = 1

\* the number of offsets in lo..hi at which the buffer holds the one-unit string c
CountIn(b, c, lo, hi) == Cardinality({k \in lo..hi : <<b[k + 1]>> = c})

\* stack matching, stated by counting: the partner of the left delimiter at
\* offset i is the first offset behind it at which as many right as left
\* delimiters have been seen from i on
MatchedPairs(b, left, right) ==
  {pr \in (0..(Len(b) - 1)) \X (0..(Len(b) - 1)) :
     /\ <<b[pr[1] + 1]>> = left
     /\ pr[2] > pr[1]
     /\ CountIn(b, left, pr[1], pr[2]) = CountIn(b, right, pr[1], pr[2])
     /\ \A j \in (pr[1] + 1)..(pr[2] - 1) :
          CountIn(b, left, pr[1], j) # CountIn(b, right, pr[1], j)}

\* C13: with the cursor on a delimiter, findMatchingPair(left, right, cursor)
\* returns the pair [l, r], l < r, of which that delimiter is part under stack
\* matching, at any nesting depth and whatever unmatched right delimiters come
\* before it, and null when the delimiter has no partner; no call changes the
\* buffer or the insertion point.
C13_FindMatchingPairOnDelimiter ==
  last.op = "findMatchingPair" =>
    LET b == last.lines
        left == last.args[1]
        right == last.args[2]
        cursor == last.args[3]
        mine == {pr \in MatchedPairs(b, left, right) : pr[1] = cursor \/ pr[2] = cursor}
    IN  /\ After = Before
        /\ (cursor >= 0 /\ cursor < Len(b) /\ <<b[cursor + 1]>> \in {left, right}) =>
             IF mine = {} THEN last.ret = <<>>
             ELSE /\ Len(last.ret) = 1
                  /\ last.ret[1] \in mine
                  /\ last.ret[1][1] < last.ret[1][2]

\* C13, witness: in ')(())' the outer pair was found from its left delimiter,
\* behind an unmatched right delimiter and around a nested pair
C13_Witness ==
  /\ last.op = "findMatchingPair"
  /\ last.lines = <<41, 40, 40, 41, 41>>
  /\ last.args = <<<<40>>, <<41>>, 1>>
  /\ last.ret = <<<<1, 4>>>>

\* C14: with the cursor strictly inside a balanced pair and on no delimiter,
\* findMatchingPair returns the innermost pair around the cursor.  (Violated:
\* in '(a)' with cursor 1 the result is null; a pair is reported only when
\* the cursor is on one of its two delimiters.)
C14_FindEnclosingPair ==
  last.op = "findMatchingPair" =>
    LET b == last.lines
        left == last.args[1]
        right == last.args[2]
        cursor == last.args[3]
        around == {pr \in MatchedPairs(b, left, right) : pr[1] < cursor /\ cursor < pr[2]}
    IN  (around # {} /\ <<b[cursor + 1]>> \notin {left, right}) =>
          /\ Len(last.ret) = 1
          /\ last.ret[1] \in around
          /\ \A pr \in around : pr[1] <= last.ret[1][1]

\* C14, witness: in '(a)' the search from cursor 1 returned null
C14_Witness ==
  /\ last.op = "findMatchingPair"
  /\ last.lines = <<40, 97, 41>>
  /\ last.args = <<<<40>>, <<41>>, 1>>
  /\ last.ret = <<>>

\* Lines, stated by counting newlines.
\* the 0-based line of offset p: the number of '\n' in b[0, p)
LineOf(b, p) == Cardinality({k \in 1..p : b[k] = LF})

\* the start offset of line k
LineStart(b, k) ==
  CHOOSE q \in 0..Len(b) : LineOf(b, q) = k /\ (q = 0 \/ b[q] = LF)

\* the length of the content of line k: the code units between its start and
\* its '\n' (or the end of the buffer), without a '\r' directly before the '\n'
LineLength(b, k) ==
  LET raw == Cardinality({q \in 0..Len(b) : LineOf(b, q) = k}) - 1
      end == LineStart(b, k) + raw
  IN  IF raw > 0 /\ end < Len(b) /\ b[end] = CR THEN raw - 1 ELSE raw

\* C15: from line k >= 1 and column c, moveLineUp puts the cursor on line
\* k - 1 at column min(c, length of line k - 1), so that line() is one less;
\* on line 0 it leaves the cursor alone; the buffer is never changed.
\* (Violated: after from('\n') the cursor stays on line 1; lastIndexOf is
\* handed the position -1, which JavaScript reads as 0.)
C15_MoveLineUp ==
  last.op = "moveLineUp" =>
    LET b == last.lines
        p == last.insertionPoint
        k == LineOf(b, p)
        c == p - LineStart(b, k)
    IN  /\ lines = b
        /\ IF k = 0 THEN insertionPoint = p
           ELSE /\ insertionPoint = LineStart(b, k - 1) + Min(c, LineLength(b, k - 1))
                /\ line(lines, insertionPoint) = line(b, p) - 1

\* C15, witness: moveLineUp after from('\n') left the cursor at 1
C15_Witness ==
  /\ last.op = "moveLineUp"
  /\ last.lines = <<LF>>
  /\ last.insertionPoint = 1
  /\ insertionPoint = 1

\* C16: from line k, not the last, and column c, moveLineDown puts the cursor
\* on line k + 1 at column min(c, length of line k + 1), so that line() is one
\* more; on the last line it leaves the cursor alone; the buffer is never
\* changed.  (Violated: in 'a\n\r\n' from offset 1 the cursor goes to 3,
\* behind the '\r' that is not part of the content of line 1.)
C16_MoveLineDown ==
  last.op = "moveLineDown" =>
    LET b == last.lines
        p == last.insertionPoint
        k == LineOf(b, p)
        c == p - LineStart(b, k)
    IN  /\ lines = b
        /\ IF k = LineOf(b, Len(b)) THEN insertionPoint = p
           ELSE /\ insertionPoint = LineStart(b, k + 1) + Min(c, LineLength(b, k + 1))
                /\ line(lines, insertionPoint) = line(b, p) + 1

\* C16, witness: in 'a\n\r\n' moveLineDown from the end of line 0 stopped
\* between '\r' and '\n'
C16_Witness ==
  /\ last.op = "moveLineDown"
  /\ last.lines = <<97, LF, CR, LF>>
  /\ last.insertionPoint = 1
  /\ insertionPoint = 3

\* 'line1\nline2\nline3'
Line123 == <<108, 105, 110, 101, 49, 10, 108, 105, 110, 101, 50, 10, 108, 105, 110, 101, 51>>

\* C17: on 'line1\nline2\nline3' moveLineUp takes the cursor from 7 to 0 and
\* from 12 to 7, moveLineDown from 0 to 7 and from 7 to 12.
\* (Violated: the cursor ends at 1, 6, 6 and 13.)
C17_LineScenario ==
  last.lines = Line123 =>
    /\ (last.op = "moveLineUp" /\ last.insertionPoint = 7) => insertionPoint = 0
    /\ (last.op = "moveLineUp" /\ last.insertionPoint = 12) => insertionPoint = 7
    /\ (last.op = "moveLineDown" /\ last.insertionPoint = 0) => insertionPoint = 7
    /\ (last.op = "moveLineDown" /\ last.insertionPoint = 7) => insertionPoint = 12

\* C17, witness: moveLineUp from 7 ended at 1
C17_Witness ==
  /\ last.op = "moveLineUp"
  /\ last.lines = Line123
  /\ last.insertionPoint = 7
  /\ insertionPoint = 1

\* the number of graphemes of b
GraphemeCount(b) == Cardinality({q \in 1..Len(b) : OnGraphemeBoundary(b, q)})

\* C18: with a grapheme on each side of the cursor, swapGraphemes exchanges
\* exactly these two graphemes, also when the right one is the last of the
\* buffer and when the two differ in length, and leaves the other text alone;
\* on a buffer of fewer than two graphemes it changes nothing.
\* (Violated: on 'aA' with the cursor at 1 nothing is exchanged.)
C18_SwapGraphemes ==
  (last.op = "swapGraphemes" /\ OnGraphemeBoundary(last.lines, last.insertionPoint)) =>
    LET b == last.lines
        p == last.insertionPoint
    IN  /\ (0 < p /\ p < Len(b)) =>
             LET l == LeftGraphemeStart(b, p)
                 r == RightGraphemeEnd(b, p)
             IN  lines = Slice(b, 0, l) \o Slice(b, p, r) \o Slice(b, l, p)
                           \o Slice(b, r, Len(b))
        /\ GraphemeCount(b) < 2 => After = Before

\* C18, witness: swapGraphemes between the two graphemes of 'aA' left the
\* buffer as it was
C18_Witness ==
  /\ last.op = "swapGraphemes"
  /\ last.lines = <<97, 65>>
  /\ last.insertionPoint = 1
  /\ lines = <<97, 65>>

\* C19: with the cursor at 0 on a buffer of at least two graphemes,
\* swapGraphemes exchanges the first two graphemes and leaves the cursor
\* behind the grapheme that is now first ('ab' at 0 gives 'ba' at 1); on 'abc'
\* with the cursor at 1 it gives 'bac' with the cursor at 2.
\* (Violated: 'ab' at 0 is left as it is; 'abc' at 1 gives 'bac' at 1.)
C19_SwapGraphemesScenario ==
  last.op = "swapGraphemes" =>
    LET b == last.lines
        p == last.insertionPoint
    IN  /\ (p = 0 /\ GraphemeCount(b) >= 2) =>
             LET m == RightGraphemeEnd(b, 0)
                 r == RightGraphemeEnd(b, m)
             IN  /\ lines = Slice(b, m, r) \o Slice(b, 0, m) \o Slice(b, r, Len(b))
                 /\ insertionPoint = r - m
        /\ (b = <<97, 98>> /\ p = 0) => After = State(<<98, 97>>, 1)
        /\ (b = <<97, 98, 99>> /\ p = 1) => After = State(<<98, 97, 99>>, 2)

\* C19, witness: swapGraphemes on 'ab' with the cursor at 0 changed nothing
C19_Witness ==
  /\ last.op = "swapGraphemes"
  /\ last.lines = <<97, 98>>
  /\ last.insertionPoint = 0
  /\ After = Before

\* the end of the run of code units satisfying P that starts at offset q
RunEnd(b, q, P(_)) ==
  CHOOSE e \in q..Len(b) :
    /\ \A k \in (q + 1)..e : P(b[k])
    /\ (e = Len(b) \/ ~P(b[e + 1]))

\* the start of the run of code units satisfying P that ends at offset q
RunStart(b, q, P(_)) ==
  CHOOSE s \in 0..q :
    /\ \A k \in (s + 1)..q : P(b[k])
    /\ (s = 0 \/ ~P(b[s]))

\* 'word1 word2'
Word12 == <<119, 111, 114, 100, 49, 32, 119, 111, 114, 100, 50>>

\* 'first second third'
FirstSecondThird ==
  <<102, 105, 114, 115, 116, 32, 115, 101, 99, 111, 110, 100, 32, 116, 104, 105, 114, 100>>

\* C20: with the cursor at the start of or inside a word that is followed,
\* after white space, by another word, swapWords exchanges the two words,
\* keeps the white space between them and the other text, and leaves the
\* cursor at the end of the word that is now first ('word1 word2' at 0 gives
\* 'word2 word1' at 5, 'first second third' at 0 gives 'second first third'
\* at 6); on a buffer of one word it changes nothing.
\* (Violated: 'word1 word2' at 0 is left as it is, 'ab' at 1 becomes 'bb'.)
C20_SwapWords ==
  last.op = "swapWords" =>
    LET b == last.lines
        p == last.insertionPoint
        ws == RunStart(b, p, IsWordChar)
        we == RunEnd(b, p, IsWordChar)
        ns == RunEnd(b, we, IsSpaceChar)
        ne == RunEnd(b, ns, IsWordChar)
    IN  /\ (p < we /\ we < ns /\ ns < ne) =>
             /\ lines = Slice(b, 0, ws) \o Slice(b, ns, ne) \o Slice(b, we, ns)
                          \o Slice(b, ws, we) \o Slice(b, ne, Len(b))
             /\ insertionPoint = ws + (ne - ns)
        /\ (b = Word12 /\ p = 0) =>
             After = State(Slice(b, 6, 11) \o <<32>> \o Slice(b, 0, 5), 5)
        /\ (b = FirstSecondThird /\ p = 0) =>
             After = State(Slice(b, 6, 12) \o <<32>> \o Slice(b, 0, 5) \o Slice(b, 12, 18), 6)
        /\ (b # <<>> /\ RunEnd(b, 0, IsWordChar) = Len(b)) => After = Before

\* C20, witness: swapWords on 'word1 word2' with the cursor at 0 changed
\* nothing
C20_Witness ==
  /\ last.op = "swapWords"
  /\ last.lines = Word12
  /\ last.insertionPoint = 0
  /\ After = Before

\* Words, stated by runs of one class.
\* the start of the maximal run of code units of one class (word or
\* punctuation) whose last code unit known to belong to it is the one that
\* ends at offset q > 0
ClassRunStart(b, q) == RunStart(b, q, LAMBDA c : CharClass(c) = CharClass(b[q]))

\* the end of the maximal run of code units of one class that contains the
\* code unit starting at offset q < Len(b)
ClassRunEnd(b, q) == RunEnd(b, q, LAMBDA c : CharClass(c) = CharClass(b[q + 1]))

\* the offsets behind a code unit before p that is no white space
NonSpaceEndsBefore(b, p) == {q \in 1..p : ~IsSpaceChar(b[q])}

\* C21: moveWordLeft puts the cursor on the start of the maximal word run or
\* maximal punctuation run that contains the cursor or, from a run start or
\* from white space, of the nearest run that ends before the cursor; that is
\* always the first offset of a maximal run, and 0 when no run precedes the
\* cursor; the buffer is left alone.
\* (Violated: in '..' from the end the cursor goes to 1, inside the run.)
C21_MoveWordLeft ==
  last.op = "moveWordLeft" =>
    LET b == last.lines
        ends == NonSpaceEndsBefore(b, last.insertionPoint)
    IN  /\ lines = b
        /\ insertionPoint = IF ends = {} THEN 0 ELSE ClassRunStart(b, Greatest(ends))

\* C21, witness: moveWordLeft from the end of '..' stopped at 1
C21_Witness ==
  /\ last.op = "moveWordLeft"
  /\ last.lines = <<46, 46>>
  /\ last.insertionPoint = 2
  /\ insertionPoint = 1

\* 'hello world'
HelloWorld == <<104, 101, 108, 108, 111, 32, 119, 111, 114, 108, 100>>

\* C22: moveBigWordLeft puts the cursor on the start of the run of code units
\* other than white space that contains the cursor or ends at it ('hello
\* world': 5 -> 0, 11 -> 6) or, from a run start or from white space, of the
\* nearest such run before the cursor (6 -> 0), and on 0 when no run precedes
\* the cursor.
\* (Violated: on 'hello world' from 11 the cursor goes to 0.)
C22_MoveBigWordLeft ==
  last.op = "moveBigWordLeft" =>
    LET b == last.lines
        ends == NonSpaceEndsBefore(b, last.insertionPoint)
    IN  /\ lines = b
        /\ insertionPoint =
             IF ends = {} THEN 0
             ELSE RunStart(b, Greatest(ends), LAMBDA c : ~IsSpaceChar(c))
        /\ (b = HelloWorld /\ last.insertionPoint = 11) => insertionPoint = 6

\* C22, witness: moveBigWordLeft from the end of 'hello world' went to 0
C22_Witness ==
  /\ last.op = "moveBigWordLeft"
  /\ last.lines = HelloWorld
  /\ last.insertionPoint = 11
  /\ insertionPoint = 0

\* the offsets at or after p at which a code unit other than white space starts
NonSpaceStartsFrom(b, p) == {q \in p..(Len(b) - 1) : ~IsSpaceChar(b[q + 1])}

\* C23: wordRightIndex is one past the end of the first maximal word run or
\* maximal punctuation run, white space skipped, that ends after the cursor,
\* and len(buffer) when only white space or nothing follows; bigWordRightIndex
\* is the same for maximal runs of code units other than white space.
\* (Violated: in '..' at 0 wordRightIndex is 1; in 'a a' at 0
\* bigWordRightIndex is 3.)
C23_WordRightIndex ==
  last.op \in {"wordRightIndex", "bigWordRightIndex"} =>
    LET b == last.lines
        starts == NonSpaceStartsFrom(b, last.insertionPoint)
    IN  /\ After = Before
        /\ last.ret =
             IF starts = {} THEN <<Len(b)>>
             ELSE IF last.op = "wordRightIndex" THEN <<ClassRunEnd(b, Least(starts))>>
             ELSE <<RunEnd(b, Least(starts), LAMBDA c : ~IsSpaceChar(c))>>

\* C23, witness: wordRightIndex at the start of '..' was 1
C23_Witness ==
  /\ last.op = "wordRightIndex"
  /\ last.lines = <<46, 46>>
  /\ last.insertionPoint = 0
  /\ last.ret = <<1>>

\* C24: with the cursor at the start of a run of code units other than white
\* space, or in white space, wordRightStartIndex and bigWordRightStartIndex
\* both return the start of the first such run that begins at or after the
\* cursor: the cursor itself at a run start ('hello world': 0 -> 0, 6 -> 6),
\* the start of the next run from white space (5 -> 6), len(buffer) when no
\* run follows.
\* (Violated: on 'hello world' at 0 bigWordRightStartIndex is 6.)
C24_WordRightStartIndex ==
  last.op \in {"wordRightStartIndex", "bigWordRightStartIndex"} =>
    LET b == last.lines
        p == last.insertionPoint
        starts == NonSpaceStartsFrom(b, p)
    IN  (p = 0 \/ p = Len(b) \/ IsSpaceChar(b[p]) \/ IsSpaceChar(b[p + 1])) =>
          /\ After = Before
          /\ last.ret = IF starts = {} THEN <<Len(b)>> ELSE <<Least(starts)>>

\* C24, witness: bigWordRightStartIndex at the start of 'hello world' was 6
C24_Witness ==
  /\ last.op = "bigWordRightStartIndex"
  /\ last.lines = HelloWorld
  /\ last.insertionPoint = 0
  /\ last.ret = <<6>>

\* a grapheme of two code units stands alone at offset q: the emoji, with
\* white space or a buffer edge on either side
StandaloneAt(b, q) ==
  /\ q + 2 <= Len(b)
  /\ Slice(b, q, q + 2) = Emoji
  /\ (q = 0 \/ IsSpaceChar(b[q]))
  /\ (q + 2 = Len(b) \/ IsSpaceChar(b[q + 3]))

\* C25: a standalone grapheme of two code units is one word: moveWordRight
\* from just before it lands behind both code units, moveWordLeft from just
\* behind it lands in front of it, deleteWordRight and deleteWordLeft remove
\* both code units together.
\* (Violated: on the emoji alone moveWordRight from 0 stops at 1, between the
\* surrogates.)
C25_StandaloneGraphemeIsWord ==
  LET b == last.lines
      p == last.insertionPoint
  IN  /\ (last.op = "moveWordRight" /\ StandaloneAt(b, p)) => After = State(b, p + 2)
      /\ (last.op = "moveWordLeft" /\ p >= 2 /\ StandaloneAt(b, p - 2)) =>
           After = State(b, p - 2)
      /\ (last.op = "deleteWordRight" /\ StandaloneAt(b, p)) =>
           After = State(Slice(b, 0, p) \o Slice(b, p + 2, Len(b)), p)
      /\ (last.op = "deleteWordLeft" /\ p >= 2 /\ StandaloneAt(b, p - 2)) =>
           After = State(Slice(b, 0, p - 2) \o Slice(b, p, Len(b)), p - 2)

\* C25, witness: moveWordRight from the start of the emoji stopped at 1
C25_Witness ==
  /\ last.op = "moveWordRight"
  /\ last.lines = Emoji
  /\ last.insertionPoint = 0
  /\ insertionPoint = 1

\* C26: in every state reachable without setInsertionPoint, buffers with
\* '\r\n' and a cursor moved step by step included, currentLineRange returns
\* [s, e] with s <= cursor <= e, where s is 0 or directly follows a '\n',
\* e = findCurrentLineEnd() is len(buffer) or the offset of the '\n' that ends
\* the line (or of the '\r' of a '\r\n'), and buffer[s, e) holds no '\n';
\* moveToLineStart sets the cursor to s and moveToLineEnd sets it to e.
\* (Violated: in '\r\n' with the cursor at 1, reached by moveRight, e is 0.)
C26_CurrentLineRange ==
  LET b == last.lines
      p == last.insertionPoint
      IsLineStart(s) ==
        /\ s <= p
        /\ (s = 0 \/ b[s] = LF)
        /\ \A k \in (s + 1)..p : b[k] # LF
      IsLineEnd(e) ==
        /\ p <= e
        /\ \/ e = Len(b)
           \/ b[e + 1] = LF
           \/ (e + 2 <= Len(b) /\ b[e + 1] = CR /\ b[e + 2] = LF)
        /\ \A k \in (p + 1)..e : b[k] # LF
  IN  /\ last.op = "currentLineRange" =>
           /\ After = Before
           /\ IsLineStart(last.ret[1][1])
           /\ IsLineEnd(last.ret[1][2])
           /\ last.ret[1][2] = findCurrentLineEnd(b, p)
      /\ last.op = "findCurrentLineEnd" => IsLineEnd(last.ret[1])
      /\ last.op = "moveToLineStart" => (lines = b /\ IsLineStart(insertionPoint))
      /\ last.op = "moveToLineEnd" => (lines = b /\ IsLineEnd(insertionPoint))

\* C26, witness: currentLineRange in '\r\n' with the cursor at 1 returned
\* [0, 0]
C26_Witness ==
  /\ last.op = "currentLineRange"
  /\ last.lines = <<CR, LF>>
  /\ last.insertionPoint = 1
  /\ last.ret = << <<0, 0>> >>

\* C27: clearToLineEnd removes exactly buffer[cursor, findCurrentLineEnd())
\* and leaves the cursor where it was, as clearRangeSafe(cursor,
\* findCurrentLineEnd()) does; the text before the cursor and from the line
\* end on is left alone.
\* (Violated: in '\r\n' with the cursor at 1 the line end is 0 and the buffer
\* becomes '\r\r\n', where clearRangeSafe(1, 0) leaves '\n'.)
C27_ClearToLineEndIsRangeDeletion ==
  last.op = "clearToLineEnd" =>
    LET b == last.lines
        p == last.insertionPoint
        e == findCurrentLineEnd(b, p)
    IN  /\ After = clearRangeSafe(b, p, p, e)
        /\ Len(lines) <= Len(b)
        /\ insertionPoint = p
        /\ Slice(lines, 0, p) = Slice(b, 0, p)
        /\ Slice(lines, p, Len(lines)) = Slice(b, Max(p, e), Len(b))

\* C27, witness: clearToLineEnd between '\r' and '\n' left '\r\r\n'
C27_Witness ==
  /\ last.op = "clearToLineEnd"
  /\ last.lines = <<CR, LF>>
  /\ last.insertionPoint = 1
  /\ lines = <<CR, CR, LF>>

\* 'hello\nworld'
HelloNewlineWorld == <<104, 101, 108, 108, 111, 10, 119, 111, 114, 108, 100>>

\* C28: after clearToLineEnd the cursor is at the start of the line it was
\* on ('hello\nworld' from 8 leaves it at 6, 'hello world' from 5 at 0).
\* (Violated: the cursor stays where it was, at 8 and at 5.)
C28_ClearToLineEndCursor ==
  last.op = "clearToLineEnd" =>
    LET b == last.lines
        p == last.insertionPoint
    IN  /\ insertionPoint = LineStart(b, LineOf(b, p))
        /\ (b = HelloNewlineWorld /\ p = 8) => insertionPoint = 6
        /\ (b = HelloWorld /\ p = 5) => insertionPoint = 0

\* C28, witness: clearToLineEnd on 'hello\nworld' from 8 left the cursor at 8
C28_Witness ==
  /\ last.op = "clearToLineEnd"
  /\ last.lines = HelloNewlineWorld
  /\ last.insertionPoint = 8
  /\ insertionPoint = 8
  /\ Len(lines) = 8

\* C29: findCharRight(c, currentLine) returns the least offset >= cursor at
\* which c occurs, searched up to len(buffer), or with currentLine only up to
\* the end of the current line, which is excluded; findCharLeft(c,
\* currentLine) returns the greatest offset < cursor at which c occurs,
\* searched back to 0, or with currentLine only back to the start of the
\* current line; each returns null when there is none, and neither changes
\* buffer or cursor.
\* (Violated: in '\r\n' with the cursor at 1 findCharRight('\r', true)
\* returns 1, where no '\r' is.)
C29_FindChar ==
  last.op \in {"findCharRight", "findCharLeft"} =>
    LET b == last.lines
        p == last.insertionPoint
        c == last.args[1][1]
        currentLine == last.args[2]
        lo == IF last.op = "findCharRight" THEN p
              ELSE IF currentLine THEN LineStart(b, LineOf(b, p)) ELSE 0
        hi == IF last.op = "findCharLeft" THEN p
              ELSE IF currentLine THEN findCurrentLineEnd(b, p) ELSE Len(b)
        hits == {q \in lo..(hi - 1) : b[q + 1] = c}
    IN  /\ After = Before
        /\ ~last.threw
        /\ last.ret = IF hits = {} THEN <<>>
                      ELSE IF last.op = "findCharRight" THEN <<Least(hits)>>
                      ELSE <<Greatest(hits)>>

\* C29, witness: findCharRight('\r', true) between '\r' and '\n' returned 1
C29_Witness ==
  /\ last.op = "findCharRight"
  /\ last.lines = <<CR, LF>>
  /\ last.insertionPoint = 1
  /\ last.args = <<<<CR>>, TRUE>>
  /\ last.ret = <<1>>

\* the offsets in the search range of the observed call at which the searched
\* character occurs: from the cursor to the end of the buffer or of the line
\* for a search to the right, from the start of the buffer or of the line to
\* the cursor for a search to the left
SearchHits ==
  LET b == last.lines
      p == last.insertionPoint
      right == last.op \in {"moveRightUntil", "moveRightBefore",
                            "deleteRightUntilChar", "deleteRightBeforeChar"}
      lo == IF right THEN p
            ELSE IF last.args[2] THEN LineStart(b, LineOf(b, p)) ELSE 0
      hi == IF ~right THEN p
            ELSE IF last.args[2] THEN findCurrentLineEnd(b, p) ELSE Len(b)
  IN  {q \in lo..(hi - 1) : b[q + 1] = last.args[1][1]}

\* C30: when the searched character does not occur in the search range,
\* moveRightUntil, moveRightBefore, moveLeftUntil and moveLeftBefore leave the
\* cursor where it is and return it, and the four delete*Char operations
\* leave buffer and cursor alone; when it occurs, a deletion removes only text
\* between the cursor and the found offset: the text on the other side of the
\* cursor and the text from the found character on are left alone.
C30_SearchNotFound ==
  LET b == last.lines
      p == last.insertionPoint
      moves == {"moveRightUntil", "moveRightBefore", "moveLeftUntil", "moveLeftBefore"}
      deletesRight == {"deleteRightUntilChar", "deleteRightBeforeChar"}
      deletesLeft == {"deleteLeftUntilChar", "deleteLeftBeforeChar"}
  IN  /\ (last.op \in moves /\ SearchHits = {}) =>
           (After = Before /\ last.ret = <<p>> /\ ~last.threw)
      /\ last.op \in moves => (lines = b /\ last.ret = <<insertionPoint>>)
      /\ (last.op \in deletesRight \cup deletesLeft /\ SearchHits = {}) =>
           (After = Before /\ ~last.threw)
      /\ (last.op \in deletesRight /\ SearchHits # {}) =>
           \E hi \in p..Least(SearchHits) :
             lines = Slice(b, 0, p) \o Slice(b, hi, Len(b))
      /\ (last.op \in deletesLeft /\ SearchHits # {}) =>
           \E lo \in Greatest(SearchHits)..p :
             lines = Slice(b, 0, lo) \o Slice(b, p, Len(b))

\* C30, witness: moveRightUntil('a') behind the only 'a' of 'a.' found
\* nothing and returned the cursor, 1
C30_Witness ==
  /\ last.op = "moveRightUntil"
  /\ last.lines = <<97, 46>>
  /\ last.insertionPoint = 1
  /\ last.args = <<<<97>>, FALSE>>
  /\ last.ret = <<1>>
  /\ After = Before

\* 'This is a test'
ThisIsATest == <<84, 104, 105, 115, 32, 105, 115, 32, 97, 32, 116, 101, 115, 116>>

\* C31: capitalizeChar and switchcaseChar change the case of exactly one
\* grapheme and leave the cursor right behind it: the grapheme at the cursor
\* when that is no white space ('This is a test' from 13 gives 'This is a
\* tesT' and 14), the first grapheme of the next word when the cursor is on
\* white space (from 9: 'This is a Test' and 11); no other character changes.
\* (Violated: switchcaseChar from 13 leaves the cursor at 13; capitalizeChar
\* from 9 changes nothing and leaves the cursor at 10.)
C31_CaseOfOneGrapheme ==
  last.op \in {"capitalizeChar", "switchcaseChar"} =>
    LET b == last.lines
        p == last.insertionPoint
        starts == NonSpaceStartsFrom(b, p)
    IN  /\ starts # {} =>
             LET g == Least(starts)
                 e == RightGraphemeEnd(b, g)
             IN  /\ Len(lines) = Len(b)
                 /\ \A k \in 1..Len(b) : (k <= g \/ k > e) => lines[k] = b[k]
                 /\ insertionPoint = e
        /\ (b = ThisIsATest /\ p = 13) =>
             After = State(Slice(b, 0, 13) \o <<84>>, 14)
        /\ (b = ThisIsATest /\ p = 9) =>
             After = State(Slice(b, 0, 10) \o <<84>> \o Slice(b, 11, 14), 11)

\* C31, witness: switchcaseChar on 'This is a test' from 13 gave 'This is a
\* tesT' and left the cursor at 13
C31_Witness ==
  /\ last.op = "switchcaseChar"
  /\ last.lines = ThisIsATest
  /\ last.insertionPoint = 13
  /\ After = State(Slice(ThisIsATest, 0, 13) \o <<84>>, 13)

\* the word the case of which uppercaseWord and lowercaseWord change, as
\* <<start, end>>: the run that contains the cursor or starts at it, or the
\* run that ends at the cursor when the cursor is at the end of the buffer;
\* <<>> when there is none
CaseWord(b, p) ==
  IF p < Len(b) /\ ~IsSpaceChar(b[p + 1])
  THEN <<ClassRunStart(b, p + 1), ClassRunEnd(b, p)>>
  ELSE IF p = Len(b) /\ p > 0 /\ ~IsSpaceChar(b[p])
  THEN <<ClassRunStart(b, p), p>>
  ELSE <<>>

\* C32: uppercaseWord (lowercaseWord) changes the case of exactly one word,
\* the one that contains the cursor, starts at it, or ends at it at the end
\* of the buffer, leaves every other character alone, the word and the white
\* space before the cursor included, and leaves the cursor at the end of that
\* word ('This is a test' from 10 gives 'This is a TEST' and 14, 'This' from
\* 0 gives 'THIS' and 4); on an empty buffer it changes nothing.
\* (Violated: from 10 the buffer becomes 'This is A TEST'; 'This' from 0
\* becomes 'THIS' with the cursor still at 0.)
C32_CaseOfOneWord ==
  last.op \in {"uppercaseWord", "lowercaseWord"} =>
    LET b == last.lines
        p == last.insertionPoint
        w == CaseWord(b, p)
        changed(s) == IF last.op = "uppercaseWord" THEN toUpperCase(s) ELSE toLowerCase(s)
    IN  /\ w # <<>> =>
             After = State(Slice(b, 0, w[1]) \o changed(Slice(b, w[1], w[2]))
                             \o Slice(b, w[2], Len(b)), w[2])
        /\ b = <<>> => After = Before

\* C32, witness: uppercaseWord on 'This is a test' from 10 gave
\* 'This is A TEST'
C32_Witness ==
  /\ last.op = "uppercaseWord"
  /\ last.lines = ThisIsATest
  /\ last.insertionPoint = 10
  /\ lines = Slice(ThisIsATest, 0, 8) \o <<65, 32, 84, 69, 83, 84>>

\* C33: with the cursor at the start of, inside or at the end of a word,
\* currentWordRange returns [s, e] around that one word: s <= cursor <= e,
\* buffer[s, e) holds no white space, and s is the cursor when the cursor is
\* at the start of a word ('hello world' at 6 gives [6, 11]); buffer and
\* cursor are left alone.
\* (Violated: 'hello world' at 6 gives [0, 11].)
C33_CurrentWordRange ==
  last.op = "currentWordRange" =>
    LET b == last.lines
        p == last.insertionPoint
        s == last.ret[1][1]
        e == last.ret[1][2]
        wordRight == p < Len(b) /\ ~IsSpaceChar(b[p + 1])
        wordLeft == p > 0 /\ ~IsSpaceChar(b[p])
    IN  /\ After = Before
        /\ (wordRight \/ wordLeft) =>
             /\ s <= p
             /\ p <= e
             /\ e <= Len(b)
             /\ \A k \in (s + 1)..e : ~IsSpaceChar(b[k])
             /\ (wordRight /\ ~wordLeft) => s = p

\* C33, witness: currentWordRange on 'hello world' at 6 returned [0, 11]
C33_Witness ==
  /\ last.op = "currentWordRange"
  /\ last.lines = HelloWorld
  /\ last.insertionPoint = 6
  /\ last.ret = << <<0, 11>> >>

\* C34: swapWords and swapGraphemes leave no partly applied change: whenever
\* the first of the two replaceRange calls changes the buffer, the second one
\* is applied as well (its normalised start is below the length the first
\* call left), and the state after the operation is the buffer before the
\* call with two ranges exchanged or the buffer before the call.
\* (Violated: the second call is always applied, but over a range computed
\* before the first call: swapWords turns 'ab' with the cursor at 1 into 'bb'.)
C34_NoPartialSwap ==
  last.op \in {"swapWords", "swapGraphemes"} =>
    LET b == last.lines
        p == last.insertionPoint
        n == Len(b)
        current == currentWordRange(b, p)
        firstWords == replaceRange(b, p, wordRightStartIndex(b, p), wordRightIndex(b, p),
                                   substring(b, current[1], current[2]))
        firstGraphemes == replaceRange(b, p, graphemeLeftIndex(b, p), p, graphemeRight(b, p))
    IN  /\ (last.op = "swapWords" /\ wordRightStartIndex(b, p) < n
              /\ firstWords.lines # b) =>
             Min(current[1], current[2]) < Len(firstWords.lines)
        /\ (last.op = "swapGraphemes" /\ graphemeRightIndex(b, p) < n
              /\ graphemeLeft(b, p) # <<>> /\ graphemeRight(b, p) # <<>>
              /\ firstGraphemes.lines # b) =>
             Min(firstGraphemes.insertionPoint, graphemeRightIndex(b, p))
               < Len(firstGraphemes.lines)
        /\ \/ lines = b
           \/ /\ Len(lines) = n
              /\ \E s1 \in 0..n : \E e1 \in s1..n : \E s2 \in e1..n : \E e2 \in s2..n :
                    lines = Slice(b, 0, s1) \o Slice(b, s2, e2) \o Slice(b, e1, s2)
                              \o Slice(b, s1, e1) \o Slice(b, e2, n)

\* C34, witness: swapWords on 'ab' with the cursor at 1 applied both
\* replacements and left 'bb'
C34_Witness ==
  /\ last.op = "swapWords"
  /\ last.lines = <<97, 98>>
  /\ last.insertionPoint = 1
  /\ lines = <<98, 98>>

\* C35: swapGraphemes and swapWords conserve content: the buffer after the
\* call has the length of the buffer before it and holds every code unit as
\* often as before, also with the cursor in white space between two words and
\* with units of different lengths.
\* (Violated: after from('aA') and moveLeft, swapWords leaves 'AA'.)
C35_SwapConservesContent ==
  last.op \in {"swapWords", "swapGraphemes"} =>
    /\ Len(lines) = Len(last.lines)
    /\ \A c \in Alphabet :
         CountIn(lines, <<c>>, 0, Len(lines) - 1)
           = CountIn(last.lines, <<c>>, 0, Len(last.lines) - 1)

\* C35, witness: swapWords with the cursor behind the first word of 'a A'
\* left 'A A': the 'a' is lost and the 'A' is there twice
C35_Witness ==
  /\ last.op = "swapWords"
  /\ last.lines = <<97, 32, 65>>
  /\ last.insertionPoint = 1
  /\ lines = <<65, 32, 65>>

\* x is y with some code units left out
RECURSIVE IsSubsequenceFrom(_, _, _, _)
IsSubsequenceFrom(x, i, y, j) ==
  IF i > Len(x) THEN TRUE
  ELSE IF j > Len(y) THEN FALSE
  ELSE IF x[i] = y[j] THEN IsSubsequenceFrom(x, i + 1, y, j + 1)
  ELSE IsSubsequenceFrom(x, i, y, j + 1)

\* the deletions and clears
DeletionNames ==
  {"deleteLeftGrapheme", "deleteRightGrapheme", "deleteWordLeft", "deleteWordRight",
   "deleteRightUntilChar", "deleteRightBeforeChar", "deleteLeftUntilChar",
   "deleteLeftBeforeChar", "clear", "clearToEnd", "clearToLineEnd",
   "clearToInsertionPoint", "clearRangeSafe"}

\* C36: no deletion or clear makes the buffer longer, and each leaves the
\* buffer before the call with some code units left out, also with the cursor
\* between the CR and the LF of a line break.
\* (Violated: clearToLineEnd on CR LF with the cursor at 1 leaves CR CR LF.)
C36_DeletionOnlyRemoves ==
  last.op \in DeletionNames =>
    /\ Len(lines) <= Len(last.lines)
    /\ IsSubsequenceFrom(lines, 1, last.lines, 1)

\* C36, witness: clearToLineEnd between the CR and the LF of CR LF left
\* CR CR LF
C36_Witness ==
  /\ last.op = "clearToLineEnd"
  /\ last.lines = <<CR, LF>>
  /\ last.insertionPoint = 1
  /\ lines = <<CR, CR, LF>>

\* the operations that only move the insertion point
NavigationNames ==
  {"moveToStart", "moveToEnd", "moveToLineStart", "moveToLineEnd", "moveLeft", "moveRight",
   "moveWordLeft", "moveBigWordLeft", "moveWordRight", "moveWordRightStart",
   "moveBigWordRightStart", "moveWordRightEnd", "moveBigWordRightEnd",
   "moveLineUp", "moveLineDown",
   "moveRightUntil", "moveRightBefore", "moveLeftUntil", "moveLeftBefore"}

\* the operations that only return a value
QueryNames ==
  {"isValid", "isEmpty", "len", "line", "numLines", "findCurrentLineEnd",
   "graphemeRightIndex", "graphemeLeftIndex", "wordRightIndex", "bigWordRightIndex",
   "wordRightEndIndex", "bigWordRightEndIndex", "wordRightStartIndex",
   "bigWordRightStartIndex", "wordLeftIndex", "bigWordLeftIndex",
   "findCharLeft", "findCharRight", "findMatchingPair", "currentWordRange",
   "currentLineRange", "graphemeLeft", "graphemeRight", "onWhitespace",
   "isCursorAtFirstLine", "isCursorAtLastLine"}

\* C37: a navigation operation never changes the buffer text, and a query
\* changes neither the buffer nor the insertion point.
C37_Frame ==
  /\ last.op \in NavigationNames => lines = last.lines
  /\ last.op \in QueryNames => After = Before

\* C37, witness: moveToStart moved the cursor from the end of 'a' LF 'A' to 0
\* and left the text as it was
C37_Witness ==
  /\ last.op = "moveToStart"
  /\ last.lines = <<97, LF, 65>>
  /\ last.insertionPoint = 3
  /\ After = State(<<97, LF, 65>>, 0)

====
